---- MODULE Spec2Model ----
(***************************************************************************)
(* Result model and error translation of the Momento client SDK.           *)
(*                                                                         *)
(*  - _ScsDataClient (src/src/momento/internal/aio/_scs_data_client.py):   *)
(*    the non-blocking facade.  Every operation is                         *)
(*        try: validate; build request; await stub.X(request, metadata,    *)
(*             timeout); map response                                      *)
(*        except Exception as e: return <Family>.Error(convert_error(e))   *)
(*    A call is split at its single await: the operation's action runs     *)
(*    the handler up to the dispatch, the transport actions run the rest.  *)
(*  - Cache (src/src/momento/cache.py): the blocking client.               *)
(*                                                                         *)
(* Durations (datetime.timedelta) are integers in microseconds.  Python    *)
(* values are records [type, val]; str holds code points, bytes holds      *)
(* byte values.  Optional[x] is <<>> (None) or <<x>>.                      *)
(***************************************************************************)
EXTENDS Integers, Sequences, FiniteSets, TLC

VARIABLES
    self,     \* the _ScsDataClient object: configuration fixed by __init__
    call,     \* per task: the _ScsDataClient call it is running
    cache,    \* the blocking Cache object and the call running on it
    client,   \* the client the program holds: its class and where it is in
              \* its life (constructed, closed, inside a `with` block, ...)
    channels, \* the transport channels the process has opened
    service   \* the remote cache service: its caches, their items, its clock

vars == <<self, call, cache, client, channels, service>>

----------------------------------------------------------------------------
(* Python values *)

None == <<>>
Some(x) == <<x>>

PyNone == [type |-> "NoneType", val |-> <<>>]
Str(cps) == [type |-> "str", val |-> cps]
Bytes(bs) == [type |-> "bytes", val |-> bs]
PyInt(n) == [type |-> "int", val |-> <<n>>]

\* str(type(data)) as Python prints it
TypeName(data) == "<class '" \o data.type \o "'>"

\* str.encode("utf-8") for code points below 2048
RECURSIVE Utf8Encode(_)
Utf8Encode(cps) ==
    IF cps = <<>> THEN <<>>
    ELSE LET cp == Head(cps)
             enc == IF cp < 128 THEN <<cp>>
                    ELSE <<192 + (cp \div 64), 128 + (cp % 64)>>
         IN enc \o Utf8Encode(Tail(cps))

\* int(x): truncation toward zero of the quotient a / b, b > 0
TruncDiv(a, b) == IF a >= 0 THEN a \div b ELSE -((-a) \div b)

\* the whole numbers of milliseconds, below 2048, that total_seconds() * 1000
\* falls short of in double precision (1.001 * 1000 = 1000.9999999999999)
InexactMilliseconds ==
    { 1001 + 2 * k : k \in 0..11 } \cup { 2002 + 4 * k : k \in 0..11 }

\* int(td.total_seconds() * 1000): the product is a double and int()
\* truncates it towards zero.  As Python computes it for every timedelta
\* shorter than 2.048 s and for every whole number of seconds.
total_milliseconds(td) ==
    LET magnitude == IF td >= 0 THEN td ELSE -td
        q == magnitude \div 1000
        ms == IF magnitude = q * 1000 /\ q \in InexactMilliseconds THEN q - 1 ELSE q
    IN IF td >= 0 THEN ms ELSE -ms

\* int(td.total_seconds()): a timedelta in whole seconds
total_whole_seconds(td) == TruncDiv(td, 1000000)

Min(S) == CHOOSE x \in S : \A y \in S : x <= y

----------------------------------------------------------------------------
(* Failures.  Every failure is a record of the same shape:                 *)
(*   kind   "SdkException" (a classified SDK error), "RpcError" (a         *)
(*          transport failure carrying a status), "Exception" (any other   *)
(*          subclass of Exception) or "BaseException" (a BaseException     *)
(*          that is no Exception)                                          *)
(*   cls    the Python class                                               *)
(*   error_code   the taxonomy member of an SdkException, "" otherwise     *)
(*   status the transport status of an RpcError, "" otherwise              *)
(*   message, cause (Optional failure)                                     *)

ErrorCodes ==
    { "INVALID_ARGUMENT_ERROR", "NOT_FOUND_ERROR", "ALREADY_EXISTS_ERROR",
      "AUTHENTICATION_ERROR", "PERMISSION_ERROR", "LIMIT_EXCEEDED_ERROR",
      "FAILED_PRECONDITION_ERROR", "INTERNAL_SERVER_ERROR",
      "SERVER_UNAVAILABLE", "TIMEOUT_ERROR", "CANCELLED_ERROR",
      "UNKNOWN_ERROR" }

SdkException(cls, code, message, cause) ==
    [kind |-> "SdkException", cls |-> cls, error_code |-> code,
     status |-> "", message |-> message, cause |-> cause]

InvalidArgumentException(message) ==
    SdkException("InvalidArgumentException", "INVALID_ARGUMENT_ERROR", message, None)

UnknownException(message) ==
    SdkException("UnknownException", "UNKNOWN_ERROR", message, None)

RpcError(status) ==
    [kind |-> "RpcError", cls |-> "AioRpcError", error_code |-> "",
     status |-> status, message |-> status, cause |-> None]

PyException(cls, message) ==
    [kind |-> "Exception", cls |-> cls, error_code |-> "",
     status |-> "", message |-> message, cause |-> None]

PyBaseException(cls, message) ==
    [kind |-> "BaseException", cls |-> cls, error_code |-> "",
     status |-> "", message |-> message, cause |-> None]

\* the transport statuses a dispatch can fail with
RpcStatuses ==
    { "INVALID_ARGUMENT", "NOT_FOUND", "ALREADY_EXISTS", "UNAUTHENTICATED",
      "PERMISSION_DENIED", "RESOURCE_EXHAUSTED", "FAILED_PRECONDITION",
      "INTERNAL", "UNAVAILABLE", "DEADLINE_EXCEEDED", "CANCELLED", "UNKNOWN" }

\* the fixed table of the error converter: transport status -> taxonomy member
StatusToCode(status) ==
    CASE status = "INVALID_ARGUMENT" -> "INVALID_ARGUMENT_ERROR"
      [] status = "NOT_FOUND" -> "NOT_FOUND_ERROR"
      [] status = "ALREADY_EXISTS" -> "ALREADY_EXISTS_ERROR"
      [] status = "UNAUTHENTICATED" -> "AUTHENTICATION_ERROR"
      [] status = "PERMISSION_DENIED" -> "PERMISSION_ERROR"
      [] status = "RESOURCE_EXHAUSTED" -> "LIMIT_EXCEEDED_ERROR"
      [] status = "FAILED_PRECONDITION" -> "FAILED_PRECONDITION_ERROR"
      [] status = "INTERNAL" -> "INTERNAL_SERVER_ERROR"
      [] status = "UNAVAILABLE" -> "SERVER_UNAVAILABLE"
      [] status = "DEADLINE_EXCEEDED" -> "TIMEOUT_ERROR"
      [] status = "CANCELLED" -> "CANCELLED_ERROR"
      [] OTHER -> "UNKNOWN_ERROR"

\* momento.errors.convert_error: classified errors pass through unchanged, a
\* transport status is mapped by the table, anything else is unknown; the
\* original failure is kept as the cause.
convert_error(e) ==
    IF e.kind = "SdkException" THEN e
    ELSE IF e.kind = "RpcError"
         THEN SdkException("SdkException", StatusToCode(e.status), e.message, Some(e))
         ELSE SdkException("UnknownException", "UNKNOWN_ERROR", e.message, Some(e))

----------------------------------------------------------------------------
(* Local validation (momento.internal._utilities).  Each validator yields  *)
(* None when it passes and Some(failure) when it raises.                   *)

_validate_name(name, whenNotStr, whenEmpty) ==
    IF name.type # "str" THEN Some(InvalidArgumentException(whenNotStr))
    ELSE IF name.val = <<>> THEN Some(InvalidArgumentException(whenEmpty))
    ELSE None

_validate_cache_name(cache_name) ==
    _validate_name(cache_name, "Cache name must be a non-empty string",
                   "Cache header is empty")

_validate_dictionary_name(dictionary_name) ==
    _validate_name(dictionary_name, "Dictionary name must be a non-empty string",
                   "Dictionary name must be a non-empty string")

_validate_list_name(list_name) ==
    _validate_name(list_name, "List name must be a non-empty string",
                   "List name must be a non-empty string")

_validate_set_name(set_name) ==
    _validate_name(set_name, "Set name must be a non-empty string",
                   "Set name must be a non-empty string")

\* a TTL must be a positive duration
_validate_ttl(ttl) ==
    IF ttl <= 0
    THEN Some(InvalidArgumentException("TTL timedelta must be a non-negative integer"))
    ELSE None

\* _as_bytes(data, error_message): [raised, val]
_as_bytes(data, error_message) ==
    IF data.type = "str" THEN [raised |-> None, val |-> Utf8Encode(data.val)]
    ELSE IF data.type = "bytes" THEN [raised |-> None, val |-> data.val]
    ELSE [raised |-> Some(InvalidArgumentException(error_message \o TypeName(data))),
          val |-> <<>>]

\* _gen_dictionary_fields_as_bytes, _gen_list_as_bytes, _gen_set_input_as_bytes
\* consumed whole: every element through _as_bytes, the first failure raised
_gen_as_bytes(values, error_message) ==
    LET conv == [i \in 1..Len(values) |-> _as_bytes(values[i], error_message)]
        bad == {i \in 1..Len(values) : conv[i].raised # None}
    IN [raised |-> IF bad = {} THEN None ELSE conv[Min(bad)].raised,
        val |-> IF bad = {} THEN [i \in 1..Len(values) |-> conv[i].val] ELSE <<>>]

\* statements run in order inside one try block: the first failure raised
FirstRaised(steps) ==
    LET bad == {i \in 1..Len(steps) : steps[i] # None}
    IN IF bad = {} THEN None ELSE steps[Min(bad)]

\* momento.internal.aio._utilities.make_metadata: the routing header
make_metadata(cache_name) == <<"cache", cache_name.val>>

----------------------------------------------------------------------------
(* Outcomes: one closed family per operation.  _error is the classified    *)
(* error of the Error variant (ErrorResponseMixin), None otherwise.        *)

Outcome(family, variant, payload) ==
    [family |-> family, variant |-> variant, payload |-> payload, _error |-> None]

Error(family, _error) ==
    [family |-> family, variant |-> "Error", payload |-> None, _error |-> Some(_error)]

\* how a call ends for its caller: a value returned, or an exception raised
\* SdkException.message_wrapper: the fixed explanatory template of the
\* error's kind.  The template of invalid-argument is the one the tests
\* quote; the text of each other template is not part of the sources at hand
\* and stands here as the code of its kind.
message_wrapper(e) ==
    IF e.error_code = "INVALID_ARGUMENT_ERROR"
    THEN "Invalid argument passed to Momento client"
    ELSE e.error_code

\* inner_exception answering with the cause of the error it was built from
inner_exception_cause(response) ==
    IF response._error[1].cause = None THEN response._error[1]
    ELSE response._error[1].cause[1]

\* ErrorResponseMixin.inner_exception
inner_exception(response) == response._error[1]

\* ErrorResponseMixin.error_code
error_code(response) == response._error[1].error_code

\* ErrorResponseMixin.message: f"{message_wrapper}: {message}", as its parts
message(response) ==
    << message_wrapper(response._error[1]), ": ", response._error[1].message >>

Returns(value) == [returned |-> Some(value), raised |-> None]
Raises(e) == [returned |-> None, raised |-> Some(e)]
NoResult == [returned |-> None, raised |-> None]

\* what the code of a handler yields before its dispatch, or after its
\* response: the failure raised (Optional) and the value built
Raised(e) == [raised |-> e, val |-> None]
Built(v) == [raised |-> None, val |-> Some(v)]

----------------------------------------------------------------------------
(* Inputs of the calls *)

\* CollectionTtl: ttl is Optional[timedelta]
CollectionTtl(ttl, refresh_ttl) == [ttl |-> ttl, refresh_ttl |-> refresh_ttl]

CacheNameInputs == { PyNone, Str(<<>>), PyInt(1), Str(<<99>>) }
KeyInputs == { Str(<<107, 233>>), Bytes(<<255>>), PyInt(1), PyNone }
ValueInputs == { Str(<<118>>), Bytes(<<0>>), PyInt(1) }
TtlInputs ==
    { None, Some(-1000000), Some(0), Some(500), Some(1001000), Some(2000000) }

\* the client's configuration: a default TTL that passed _validate_ttl and the
\* deadline of the transport strategy
DefaultTtlInputs == { 500, 60000000 }
DeadlineInputs == { 1000, 1500000, 2000000 }

\* dictionary_name, list_name, set_name
NameInputs == { PyNone, Str(<<>>), Str(<<100>>) }
\* a single field, value or element
FieldInputs == { Str(<<102>>), Bytes(<<255>>), PyInt(1) }
\* fields, values, elements
FieldsInputs ==
    { <<>>, << Str(<<102>>) >>, << Str(<<102>>), Bytes(<<255>>) >>,
      << Str(<<102>>), PyInt(1) >> }
\* items: (field, value) pairs
ItemsInputs ==
    { <<>>, << <<Str(<<102>>), Str(<<118>>)>> >>,
      << <<Str(<<102>>), Bytes(<<255>>)>>, <<Str(<<103>>), PyInt(1)>> >> }
\* CollectionTtl.from_cache_ttl() and explicit TTLs
CollectionTtlInputs ==
    { CollectionTtl(None, TRUE), CollectionTtl(Some(0), TRUE),
      CollectionTtl(Some(-1000000), TRUE), CollectionTtl(Some(2000000), FALSE) }
AmountInputs == { 1 }
TruncateInputs == { None, Some(1) }

Tasks == { "t1" }

----------------------------------------------------------------------------
(* _ScsDataClient: scalar operations *)

\* set without its _validate_ttl(item_ttl) line
set_request_ttl_unchecked(slf, cache_name, key, value, ttl) ==
    LET item_ttl == IF ttl = None THEN slf._default_ttl ELSE ttl[1]
        cache_key == _as_bytes(key, "Unsupported type for key: ")
        cache_body == _as_bytes(value, "Unsupported type for value: ")
        raised == FirstRaised(<< _validate_cache_name(cache_name),
                                 cache_key.raised,
                                 cache_body.raised >>)
    IN IF raised # None THEN Raised(raised)
       ELSE Built([cache_key |-> cache_key.val,
                   cache_body |-> cache_body.val,
                   ttl_milliseconds |-> total_milliseconds(item_ttl)])

\* set sending the client's default TTL whatever the call passed
set_request_default_ttl(slf, cache_name, key, value, ttl) ==
    LET item_ttl == IF ttl = None THEN slf._default_ttl ELSE ttl[1]
        cache_key == _as_bytes(key, "Unsupported type for key: ")
        cache_body == _as_bytes(value, "Unsupported type for value: ")
        raised == FirstRaised(<< _validate_cache_name(cache_name),
                                 _validate_ttl(item_ttl),
                                 cache_key.raised,
                                 cache_body.raised >>)
    IN IF raised # None THEN Raised(raised)
       ELSE Built([cache_key |-> cache_key.val,
                   cache_body |-> cache_body.val,
                   ttl_milliseconds |-> total_milliseconds(slf._default_ttl)])

\* set filling cache_body from the key
set_request_body_from_key(slf, cache_name, key, value, ttl) ==
    LET item_ttl == IF ttl = None THEN slf._default_ttl ELSE ttl[1]
        cache_key == _as_bytes(key, "Unsupported type for key: ")
        cache_body == _as_bytes(value, "Unsupported type for value: ")
        raised == FirstRaised(<< _validate_cache_name(cache_name),
                                 _validate_ttl(item_ttl),
                                 cache_key.raised,
                                 cache_body.raised >>)
    IN IF raised # None THEN Raised(raised)
       ELSE Built([cache_key |-> cache_key.val,
                   cache_body |-> cache_key.val,
                   ttl_milliseconds |-> total_milliseconds(item_ttl)])

\* set, up to the dispatch
set_request(slf, cache_name, key, value, ttl) ==
    LET item_ttl == IF ttl = None THEN slf._default_ttl ELSE ttl[1]
        cache_key == _as_bytes(key, "Unsupported type for key: ")
        cache_body == _as_bytes(value, "Unsupported type for value: ")
        raised == FirstRaised(<< _validate_cache_name(cache_name),
                                 _validate_ttl(item_ttl),
                                 cache_key.raised,
                                 cache_body.raised >>)
    IN IF raised # None THEN Raised(raised)
       ELSE Built([cache_key |-> cache_key.val,
                   cache_body |-> cache_body.val,
                   ttl_milliseconds |-> total_milliseconds(item_ttl)])

\* set, after the dispatch returned
set_response(response) == Built(Outcome("CacheSet", "Success", None))

\* set_if_not_exists, up to the dispatch
set_if_not_exists_request(slf, cache_name, key, value, ttl) ==
    LET item_ttl == IF ttl = None THEN slf._default_ttl ELSE ttl[1]
        cache_key == _as_bytes(key, "Unsupported type for key: ")
        cache_body == _as_bytes(value, "Unsupported type for value: ")
        raised == FirstRaised(<< _validate_cache_name(cache_name),
                                 _validate_ttl(item_ttl),
                                 cache_key.raised,
                                 cache_body.raised >>)
    IN IF raised # None THEN Raised(raised)
       ELSE Built([cache_key |-> cache_key.val,
                   cache_body |-> cache_body.val,
                   ttl_milliseconds |-> total_milliseconds(item_ttl)])

\* set_if_not_exists with its two branches exchanged
set_if_not_exists_response_swapped(response) ==
    IF response.result = Some("stored")
    THEN Built(Outcome("CacheSetIfNotExists", "NotStored", None))
    ELSE IF response.result = Some("not_stored")
    THEN Built(Outcome("CacheSetIfNotExists", "Stored", None))
    ELSE Raised(Some(UnknownException("SetIfNotExists responded with an unknown result")))

\* set_if_not_exists, after the dispatch returned
set_if_not_exists_response(response) ==
    IF response.result = Some("stored")
    THEN Built(Outcome("CacheSetIfNotExists", "Stored", None))
    ELSE IF response.result = Some("not_stored")
    THEN Built(Outcome("CacheSetIfNotExists", "NotStored", None))
    ELSE Raised(Some(UnknownException("SetIfNotExists responded with an unknown result")))

\* get, up to the dispatch
get_request(cache_name, key) ==
    LET cache_key == _as_bytes(key, "Unsupported type for key: ")
        raised == FirstRaised(<< _validate_cache_name(cache_name), cache_key.raised >>)
    IN IF raised # None THEN Raised(raised)
       ELSE Built([cache_key |-> cache_key.val])

\* get treating a miss as an unknown result
get_response_miss_raises(response) ==
    IF response.result = "Hit"
    THEN Built(Outcome("CacheGet", "Hit", Some(response.cache_body)))
    ELSE Raised(Some(UnknownException("Get responded with an unknown result")))

\* get with a final else that answers Miss
get_response_default_miss(response) ==
    IF response.result = "Hit"
    THEN Built(Outcome("CacheGet", "Hit", Some(response.cache_body)))
    ELSE Built(Outcome("CacheGet", "Miss", None))

\* get, after the dispatch returned
get_response(response) ==
    IF response.result = "Hit"
    THEN Built(Outcome("CacheGet", "Hit", Some(response.cache_body)))
    ELSE IF response.result = "Miss"
    THEN Built(Outcome("CacheGet", "Miss", None))
    ELSE Raised(Some(UnknownException("Get responded with an unknown result")))

\* delete leaving the request's cache_key unset
delete_request_without_key(cache_name, key) ==
    LET cache_key == _as_bytes(key, "Unsupported type for key: ")
        raised == FirstRaised(<< _validate_cache_name(cache_name), cache_key.raised >>)
    IN IF raised # None THEN Raised(raised)
       ELSE Built([cache_key |-> <<>>])

\* delete, up to the dispatch
delete_request(cache_name, key) ==
    LET cache_key == _as_bytes(key, "Unsupported type for key: ")
        raised == FirstRaised(<< _validate_cache_name(cache_name), cache_key.raised >>)
    IN IF raised # None THEN Raised(raised)
       ELSE Built([cache_key |-> cache_key.val])

\* delete, after the dispatch returned
delete_response(response) == Built(Outcome("CacheDelete", "Success", None))

----------------------------------------------------------------------------
(* _ScsDataClient: collection operations *)

\* the explicit TTL when one is given, else the client's default TTL
_ttl_or_default_milliseconds(slf, ttl) ==
    LET which_ttl == IF ttl # None THEN ttl[1] ELSE slf._default_ttl
    IN total_milliseconds(which_ttl)

_collection_ttl_or_default_milliseconds(slf, collection_ttl) ==
    _ttl_or_default_milliseconds(slf, collection_ttl.ttl)

\* request.<field> = value for an unsigned wire field: a negative value is
\* refused by the wire type with ValueError
set_unsigned(value) ==
    IF value < 0 THEN Some(PyException("ValueError", "Value out of range")) ELSE None

dictionary_get_fields_request(cache_name, dictionary_name, fields) ==
    LET name == _as_bytes(dictionary_name, "Unsupported type for dictionary_name: ")
        bytes_fields == _gen_as_bytes(fields, "Unsupported type for fields: ")
        raised == FirstRaised(<< _validate_cache_name(cache_name),
                                 _validate_dictionary_name(dictionary_name),
                                 name.raised, bytes_fields.raised >>)
    IN IF raised # None THEN Raised(raised)
       ELSE Built([dictionary_name |-> name.val, fields |-> bytes_fields.val])

\* a per-field Hit built with the field and the body in each other's place
dictionary_get_field_response_swapped(field, item) ==
    IF item.result = "Miss"
    THEN [variant |-> "Miss", value_bytes |-> <<>>, field_bytes |-> <<>>]
    ELSE [variant |-> "Hit", value_bytes |-> field, field_bytes |-> item.cache_body]

\* one per-field response of dictionary_get_fields
dictionary_get_field_response(field, item) ==
    IF item.result = "Miss"
    THEN [variant |-> "Miss", value_bytes |-> <<>>, field_bytes |-> <<>>]
    ELSE [variant |-> "Hit", value_bytes |-> item.cache_body, field_bytes |-> field]

dictionary_get_fields_response(request, response) ==
    IF response.dictionary = Some("found")
    THEN LET n == IF Len(request.fields) <= Len(response.items)
                  THEN Len(request.fields) ELSE Len(response.items)
             get_responses ==
                 [i \in 1..n |->
                     dictionary_get_field_response(request.fields[i], response.items[i])]
         IN Built(Outcome("CacheDictionaryGetFields", "Hit", Some(get_responses)))
    ELSE IF response.dictionary = Some("missing")
    THEN Built(Outcome("CacheDictionaryGetFields", "Miss", None))
    ELSE Raised(Some(UnknownException("Unknown dictionary field")))

dictionary_fetch_request(cache_name, dictionary_name) ==
    LET name == _as_bytes(dictionary_name, "Unsupported type for dictionary_name: ")
        raised == FirstRaised(<< _validate_cache_name(cache_name),
                                 _validate_dictionary_name(dictionary_name),
                                 name.raised >>)
    IN IF raised # None THEN Raised(raised)
       ELSE Built([dictionary_name |-> name.val])

\* {item.field: item.value for item in items}: a later item replaces an earlier
\* one with the same field
DictOf(items) ==
    { <<items[i].field, items[i].value>> : i \in
        { j \in 1..Len(items) :
            \A k \in (j + 1)..Len(items) : items[k].field # items[j].field } }

dictionary_fetch_response(response) ==
    IF response.dictionary = Some("missing")
    THEN Built(Outcome("CacheDictionaryFetch", "Miss", None))
    ELSE IF response.dictionary = Some("found")
    THEN Built(Outcome("CacheDictionaryFetch", "Hit", Some(DictOf(response.items))))
    ELSE Raised(Some(UnknownException("Unknown dictionary field")))

dictionary_increment_request(slf, cache_name, dictionary_name, field, amount, ttl) ==
    LET name == _as_bytes(dictionary_name, "Unsupported type for dictionary_name: ")
        field_bytes == _as_bytes(field, "Unsupported type for field: ")
        ttl_milliseconds == _collection_ttl_or_default_milliseconds(slf, ttl)
        raised == FirstRaised(<< _validate_cache_name(cache_name),
                                 _validate_dictionary_name(dictionary_name),
                                 name.raised, field_bytes.raised,
                                 set_unsigned(ttl_milliseconds) >>)
    IN IF raised # None THEN Raised(raised)
       ELSE Built([dictionary_name |-> name.val, field |-> field_bytes.val,
                   amount |-> amount, ttl_milliseconds |-> ttl_milliseconds,
                   refresh_ttl |-> ttl.refresh_ttl])

dictionary_increment_response(response) ==
    Built(Outcome("CacheDictionaryIncrement", "Success", Some(response.value)))

dictionary_remove_fields_request(cache_name, dictionary_name, fields) ==
    LET name == _as_bytes(dictionary_name, "Unsupported type for dictionary_name: ")
        bytes_fields == _gen_as_bytes(fields, "Unsupported type for fields: ")
        raised == FirstRaised(<< _validate_cache_name(cache_name),
                                 _validate_dictionary_name(dictionary_name),
                                 name.raised, bytes_fields.raised >>)
    IN IF raised # None THEN Raised(raised)
       ELSE Built([dictionary_name |-> name.val, some_fields |-> bytes_fields.val])

dictionary_remove_fields_response(response) ==
    Built(Outcome("CacheDictionaryRemoveFields", "Success", None))

\* _gen_dictionary_items_as_bytes: every (field, value) pair through _as_bytes
_gen_dictionary_items_as_bytes(items, error_message) ==
    LET fs == _gen_as_bytes([i \in 1..Len(items) |-> items[i][1]], error_message)
        vs == _gen_as_bytes([i \in 1..Len(items) |-> items[i][2]], error_message)
        conv == [i \in 1..Len(items) |->
                    FirstRaised(<< _as_bytes(items[i][1], error_message).raised,
                                   _as_bytes(items[i][2], error_message).raised >>)]
        bad == {i \in 1..Len(items) : conv[i] # None}
    IN [raised |-> IF bad = {} THEN None ELSE conv[Min(bad)],
        val |-> IF bad = {}
                THEN [i \in 1..Len(items) |-> [field |-> fs.val[i], value |-> vs.val[i]]]
                ELSE <<>>]

dictionary_set_fields_request(slf, cache_name, dictionary_name, items, ttl) ==
    LET name == _as_bytes(dictionary_name, "Unsupported type for dictionary_name: ")
        pairs == _gen_dictionary_items_as_bytes(items, "Unsupported type for items: ")
        ttl_milliseconds == _collection_ttl_or_default_milliseconds(slf, ttl)
        raised == FirstRaised(<< _validate_cache_name(cache_name),
                                 _validate_dictionary_name(dictionary_name),
                                 name.raised, pairs.raised,
                                 set_unsigned(ttl_milliseconds) >>)
    IN IF raised # None THEN Raised(raised)
       ELSE Built([dictionary_name |-> name.val, items |-> pairs.val,
                   ttl_milliseconds |-> ttl_milliseconds,
                   refresh_ttl |-> ttl.refresh_ttl])

dictionary_set_fields_response(response) ==
    Built(Outcome("CacheDictionarySetFields", "Success", None))

\* list_concatenate_back / list_concatenate_front, up to the dispatch;
\* truncate_to_size is truncate_front_to_size or truncate_back_to_size
list_concatenate_request(slf, cache_name, list_name, values, ttl, truncate_to_size) ==
    LET name == _as_bytes(list_name, "Unsupported type for list_name: ")
        bytes_values == _gen_as_bytes(values, "Unsupported type for values: ")
        ttl_milliseconds == _collection_ttl_or_default_milliseconds(slf, ttl)
        raised == FirstRaised(<< _validate_cache_name(cache_name),
                                 _validate_list_name(list_name),
                                 name.raised, bytes_values.raised,
                                 set_unsigned(ttl_milliseconds),
                                 IF truncate_to_size # None
                                 THEN set_unsigned(truncate_to_size[1]) ELSE None >>)
    IN IF raised # None THEN Raised(raised)
       ELSE Built([list_name |-> name.val, values |-> bytes_values.val,
                   ttl_milliseconds |-> ttl_milliseconds,
                   refresh_ttl |-> ttl.refresh_ttl,
                   truncate_to_size |-> truncate_to_size])

list_concatenate_back_request(slf, cache_name, list_name, values, ttl, truncate_front_to_size) ==
    list_concatenate_request(slf, cache_name, list_name, values, ttl, truncate_front_to_size)

list_concatenate_back_response(response) ==
    Built(Outcome("CacheListConcatenateBack", "Success", Some(response.list_length)))

list_concatenate_front_request(slf, cache_name, list_name, values, ttl, truncate_back_to_size) ==
    list_concatenate_request(slf, cache_name, list_name, values, ttl, truncate_back_to_size)

list_concatenate_front_response(response) ==
    Built(Outcome("CacheListConcatenateFront", "Success", Some(response.list_length)))

\* list_fetch, list_length, list_pop_back, list_pop_front, up to the dispatch
list_name_request(cache_name, list_name) ==
    LET name == _as_bytes(list_name, "Unsupported type for list_name: ")
        raised == FirstRaised(<< _validate_cache_name(cache_name),
                                 _validate_list_name(list_name),
                                 name.raised >>)
    IN IF raised # None THEN Raised(raised)
       ELSE Built([list_name |-> name.val])

list_fetch_response(response) ==
    IF response.list = Some("missing")
    THEN Built(Outcome("CacheListFetch", "Miss", None))
    ELSE IF response.list = Some("found")
    THEN Built(Outcome("CacheListFetch", "Hit", Some(response.found.values)))
    ELSE Raised(Some(UnknownException("Unknown list field")))

list_length_response(response) ==
    IF response.list = Some("missing")
    THEN Built(Outcome("CacheListLength", "Miss", None))
    ELSE IF response.list = Some("found")
    THEN Built(Outcome("CacheListLength", "Hit", Some(response.found.length)))
    ELSE Raised(Some(UnknownException("Unknown list field")))

list_pop_back_response(response) ==
    IF response.list = Some("missing")
    THEN Built(Outcome("CacheListPopBack", "Miss", None))
    ELSE IF response.list = Some("found")
    THEN Built(Outcome("CacheListPopBack", "Hit", Some(response.found.back)))
    ELSE Raised(Some(UnknownException("Unknown list field")))

list_pop_front_response(response) ==
    IF response.list = Some("missing")
    THEN Built(Outcome("CacheListPopFront", "Miss", None))
    ELSE IF response.list = Some("found")
    THEN Built(Outcome("CacheListPopFront", "Hit", Some(response.found.front)))
    ELSE Raised(Some(UnknownException("Unknown list field")))

\* list_push_back / list_push_front, up to the dispatch
list_push_request(slf, cache_name, list_name, value, ttl, truncate_to_size) ==
    LET name == _as_bytes(list_name, "Unsupported type for list_name: ")
        value_bytes == _as_bytes(value, "Unsupported type for value: ")
        ttl_milliseconds == _collection_ttl_or_default_milliseconds(slf, ttl)
        raised == FirstRaised(<< _validate_cache_name(cache_name),
                                 _validate_list_name(list_name),
                                 name.raised, value_bytes.raised,
                                 set_unsigned(ttl_milliseconds),
                                 IF truncate_to_size # None
                                 THEN set_unsigned(truncate_to_size[1]) ELSE None >>)
    IN IF raised # None THEN Raised(raised)
       ELSE Built([list_name |-> name.val, value |-> value_bytes.val,
                   ttl_milliseconds |-> ttl_milliseconds,
                   refresh_ttl |-> ttl.refresh_ttl,
                   truncate_to_size |-> truncate_to_size])

list_push_back_response(response) ==
    Built(Outcome("CacheListPushBack", "Success", Some(response.list_length)))

list_push_front_response(response) ==
    Built(Outcome("CacheListPushFront", "Success", Some(response.list_length)))

list_remove_value_request(cache_name, list_name, value) ==
    LET name == _as_bytes(list_name, "Unsupported type for list_name: ")
        value_bytes == _as_bytes(value, "Unsupported type for value: ")
        raised == FirstRaised(<< _validate_cache_name(cache_name),
                                 _validate_list_name(list_name),
                                 name.raised, value_bytes.raised >>)
    IN IF raised # None THEN Raised(raised)
       ELSE Built([list_name |-> name.val, all_elements_with_value |-> value_bytes.val])

list_remove_value_response(response) ==
    Built(Outcome("CacheListRemoveValue", "Success", None))

set_add_elements_request(slf, cache_name, set_name, elements, ttl) ==
    LET name == _as_bytes(set_name, "Unsupported type for set_name: ")
        bytes_elements == _gen_as_bytes(elements, "Unsupported tyoe for elements: ")
        ttl_milliseconds == _collection_ttl_or_default_milliseconds(slf, ttl)
        raised == FirstRaised(<< _validate_cache_name(cache_name),
                                 _validate_set_name(set_name),
                                 name.raised, bytes_elements.raised,
                                 set_unsigned(ttl_milliseconds) >>)
    IN IF raised # None THEN Raised(raised)
       ELSE Built([set_name |-> name.val, elements |-> bytes_elements.val,
                   ttl_milliseconds |-> ttl_milliseconds,
                   refresh_ttl |-> ttl.refresh_ttl])

set_add_elements_response(response) ==
    Built(Outcome("CacheSetAddElements", "Success", None))

set_fetch_request(cache_name, set_name) ==
    LET name == _as_bytes(set_name, "Unsupported type for set_name: ")
        raised == FirstRaised(<< _validate_cache_name(cache_name),
                                 _validate_set_name(set_name),
                                 name.raised >>)
    IN IF raised # None THEN Raised(raised)
       ELSE Built([set_name |-> name.val])

\* set(response.found.elements)
set_fetch_response(response) ==
    IF response.set = Some("missing")
    THEN Built(Outcome("CacheSetFetch", "Miss", None))
    ELSE IF response.set = Some("found")
    THEN Built(Outcome("CacheSetFetch", "Hit",
                       Some({ response.found.elements[i] :
                                i \in 1..Len(response.found.elements) })))
    ELSE Raised(Some(UnknownException("Unknown set field in response: None")))

set_remove_elements_request(cache_name, set_name, elements) ==
    LET name == _as_bytes(set_name, "Unsupported type for set_name: ")
        bytes_elements == _gen_as_bytes(elements, "Unsupported tyoe for elements: ")
        raised == FirstRaised(<< _validate_cache_name(cache_name),
                                 _validate_set_name(set_name),
                                 name.raised, bytes_elements.raised >>)
    IN IF raised # None THEN Raised(raised)
       ELSE Built([set_name |-> name.val, subtrahend_elements |-> bytes_elements.val])

set_remove_elements_response(response) ==
    Built(Outcome("CacheSetRemoveElements", "Success", None))

----------------------------------------------------------------------------
(* The transport: what a stub method can answer *)

BodyInputs == { <<>>, <<118>>, <<255>> }

\* DictionaryGet: found.items, one [result, cache_body] per answered field
DictionaryGetItems ==
    LET hit == [result |-> "Hit", cache_body |-> <<118>>]
        miss == [result |-> "Miss", cache_body |-> <<>>]
        invalid == [result |-> "Invalid", cache_body |-> <<>>]
    IN { <<>>, <<hit>>, <<miss>>, <<invalid>>, <<hit, miss>>, <<miss, hit>>,
         <<invalid, hit>> }

\* DictionaryFetch: found.items, [field, value] pairs
DictionaryFetchItems ==
    { <<>>, << [field |-> <<102>>, value |-> <<118>>] >>,
      << [field |-> <<102>>, value |-> <<118>>], [field |-> <<102>>, value |-> <<255>>] >>,
      << [field |-> <<102>>, value |-> <<118>>], [field |-> <<103>>, value |-> <<118>>] >> }

ByteSeqs == { <<>>, << <<118>> >>, << <<118>>, <<255>> >>, << <<118>>, <<118>> >> }

Oneof(name, found) ==
    { [name |-> None, found |-> <<>>], [name |-> Some("missing"), found |-> <<>>] }
    \cup { [name |-> Some("found"), found |-> f] : f \in found }

Responses(method) ==
    CASE method \in { "Set", "Delete", "DictionaryDelete", "DictionarySet",
                      "ListRemove", "SetUnion", "SetDifference" } ->
            { [result |-> "Ok"] }
      [] method = "SetIfNotExists" ->
            { [result |-> r] : r \in { Some("stored"), Some("not_stored"), None } }
      [] method = "Get" ->
            { [result |-> "Hit", cache_body |-> b] : b \in BodyInputs }
            \cup { [result |-> r, cache_body |-> <<>>] : r \in { "Miss", "Invalid", "Ok" } }
      [] method = "DictionaryGet" ->
            { [dictionary |-> r.name, items |-> r.found] :
                r \in Oneof("dictionary", DictionaryGetItems) }
      [] method = "DictionaryFetch" ->
            { [dictionary |-> r.name, items |-> r.found] :
                r \in Oneof("dictionary", DictionaryFetchItems) }
      [] method = "DictionaryIncrement" -> { [value |-> v] : v \in { -4, 1 } }
      [] method \in { "ListConcatenateBack", "ListConcatenateFront",
                      "ListPushBack", "ListPushFront" } ->
            { [list_length |-> n] : n \in { 1, 2 } }
      [] method = "ListFetch" ->
            { [list |-> r.name, found |-> [values |-> r.found]] :
                r \in Oneof("list", ByteSeqs) }
      [] method = "ListLength" ->
            { [list |-> r.name, found |-> [length |-> r.found]] :
                r \in { [name |-> None, found |-> 0], [name |-> Some("missing"), found |-> 0],
                        [name |-> Some("found"), found |-> 0],
                        [name |-> Some("found"), found |-> 2] } }
      [] method = "ListPopBack" ->
            { [list |-> r.name, found |-> [back |-> r.found]] :
                r \in Oneof("list", BodyInputs) }
      [] method = "ListPopFront" ->
            { [list |-> r.name, found |-> [front |-> r.found]] :
                r \in Oneof("list", BodyInputs) }
      [] method = "SetFetch" ->
            { [set |-> r.name, found |-> [elements |-> r.found]] :
                r \in Oneof("set", ByteSeqs) }

\* the rest of the handler, run when the awaited stub call returns
OnResponse(op, request, response) ==
    CASE op = "set" -> set_response(response)
      [] op = "set_if_not_exists" -> set_if_not_exists_response(response)
      [] op = "get" -> get_response(response)
      [] op = "delete" -> delete_response(response)
      [] op = "dictionary_get_fields" -> dictionary_get_fields_response(request, response)
      [] op = "dictionary_fetch" -> dictionary_fetch_response(response)
      [] op = "dictionary_increment" -> dictionary_increment_response(response)
      [] op = "dictionary_remove_fields" -> dictionary_remove_fields_response(response)
      [] op = "dictionary_set_fields" -> dictionary_set_fields_response(response)
      [] op = "list_concatenate_back" -> list_concatenate_back_response(response)
      [] op = "list_concatenate_front" -> list_concatenate_front_response(response)
      [] op = "list_fetch" -> list_fetch_response(response)
      [] op = "list_length" -> list_length_response(response)
      [] op = "list_pop_back" -> list_pop_back_response(response)
      [] op = "list_pop_front" -> list_pop_front_response(response)
      [] op = "list_push_back" -> list_push_back_response(response)
      [] op = "list_push_front" -> list_push_front_response(response)
      [] op = "list_remove_value" -> list_remove_value_response(response)
      [] op = "set_add_elements" -> set_add_elements_response(response)
      [] op = "set_fetch" -> set_fetch_response(response)
      [] op = "set_remove_elements" -> set_remove_elements_response(response)

----------------------------------------------------------------------------
(* A call of a _ScsDataClient operation *)

Idle ==
    [pc |-> "idle", op |-> "", family |-> "", args |-> <<>>, rpc |-> None,
     stub_calls |-> 0, waited |-> 0, stub |-> "", exc |-> None,
     response |-> None, result |-> NoResult,
     overlaps |-> FALSE,   \* another call was in flight when this one began
     served |-> None]      \* what the service held when it answered

\* the except branch as the blocking client has it: the converted error is
\* raised, not returned
except_Exception_reraises(family, e) == Raises(convert_error(e))

\* the except branch classifying a transport failure by the operation it
\* caught it in
except_Exception_by_operation(family, e) ==
    Returns(Error(family,
        IF family = "CacheGet" /\ e.kind = "RpcError"
        THEN SdkException("SdkException", "INTERNAL_SERVER_ERROR", e.message, Some(e))
        ELSE convert_error(e)))

\* the except branch wrapping whatever it caught in a new unknown error
except_Exception_wraps(family, e) ==
    Returns(Error(family, SdkException("UnknownException", "UNKNOWN_ERROR",
                                       e.message, Some(e))))

\* except Exception as e: return <Family>.Error(convert_error(e))
except_Exception(family, e) == Returns(Error(family, convert_error(e)))

\* the dispatch as the blocking client has it: no timeout argument
stub_call_without_timeout(slf, method, request, cache_name) ==
    [method |-> method, request |-> request,
     metadata |-> make_metadata(cache_name), timeout |-> None]

\* the dispatch sending a request object the client keeps for all its calls:
\* a call that begins while another is in flight sends that other's request
stub_call_shared_request(slf, method, request, cache_name) ==
    LET others == { u \in DOMAIN call : call[u].pc = "awaiting" }
    IN [method |-> method,
        request |-> IF others = {} THEN request
                    ELSE call[CHOOSE u \in others : TRUE].rpc[1].request,
        metadata |-> make_metadata(cache_name),
        timeout |-> Some(slf._default_deadline_seconds)]

\* the dispatch routed to one cache whatever the call names
stub_call_fixed_cache(slf, method, request, cache_name) ==
    [method |-> method, request |-> request,
     metadata |-> make_metadata(Str(<<97>>)),
     timeout |-> Some(slf._default_deadline_seconds)]

\* await self._build_stub().<method>(request, metadata=make_metadata(cache_name),
\*                                   timeout=self._default_deadline_seconds)
stub_call(slf, method, request, cache_name) ==
    [method |-> method, request |-> request,
     metadata |-> make_metadata(cache_name),
     timeout |-> Some(slf._default_deadline_seconds)]

\* the handler of `op` from its entry to its await, or to its return when the
\* code before the dispatch raised
Invoked(op, family, method, args, cache_name, built) ==
    LET began == [Idle EXCEPT !.op = op, !.family = family, !.args = args,
                              !.overlaps = \E u \in DOMAIN call :
                                              call[u].pc = "awaiting"]
    IN IF built.raised # None
       THEN [began EXCEPT !.pc = "done", !.exc = built.raised,
                          !.result = except_Exception(family, built.raised[1])]
       ELSE [began EXCEPT !.pc = "awaiting", !.stub_calls = 1,
                          !.rpc = Some(stub_call(self, method, built.val[1], cache_name))]

\* a handler that keeps the TTL it was given as the client's new default
Invoke_storing_ttl(t, op, family, method, args, cache_name, built) ==
    /\ client.cls = "_ScsDataClient" /\ client.state = "constructed"
    /\ call' = [call EXCEPT ![t] = Invoked(op, family, method, args, cache_name, built)]
    /\ self' = IF op = "set" /\ args.ttl # None
               THEN [self EXCEPT !._default_ttl = args.ttl[1]]
               ELSE self
    /\ UNCHANGED <<cache, client, channels, service>>

\* no handler assigns an attribute of self, opens a channel or touches
\* anything but its own locals
Invoke(t, op, family, method, args, cache_name, built) ==
    /\ client.cls = "_ScsDataClient" /\ client.state = "constructed"
    /\ call' = [call EXCEPT ![t] = Invoked(op, family, method, args, cache_name, built)]
    /\ UNCHANGED <<self, cache, client, channels, service>>

set(t) ==
    /\ call[t].pc = "idle"
    /\ \E cache_name \in CacheNameInputs, key \in KeyInputs,
          value \in ValueInputs, ttl \in TtlInputs :
           Invoke(t, "set", "CacheSet", "Set",
                  [cache_name |-> cache_name, key |-> key, value |-> value, ttl |-> ttl],
                  cache_name, set_request(self, cache_name, key, value, ttl))

set_if_not_exists(t) ==
    /\ call[t].pc = "idle"
    /\ \E cache_name \in CacheNameInputs, key \in KeyInputs,
          value \in ValueInputs, ttl \in TtlInputs :
           Invoke(t, "set_if_not_exists", "CacheSetIfNotExists", "SetIfNotExists",
                  [cache_name |-> cache_name, key |-> key, value |-> value, ttl |-> ttl],
                  cache_name, set_if_not_exists_request(self, cache_name, key, value, ttl))

get(t) ==
    /\ call[t].pc = "idle"
    /\ \E cache_name \in CacheNameInputs, key \in KeyInputs :
           Invoke(t, "get", "CacheGet", "Get",
                  [cache_name |-> cache_name, key |-> key],
                  cache_name, get_request(cache_name, key))

delete(t) ==
    /\ call[t].pc = "idle"
    /\ \E cache_name \in CacheNameInputs, key \in KeyInputs :
           Invoke(t, "delete", "CacheDelete", "Delete",
                  [cache_name |-> cache_name, key |-> key],
                  cache_name, delete_request(cache_name, key))

dictionary_get_fields(t) ==
    /\ call[t].pc = "idle"
    /\ \E cache_name \in CacheNameInputs, dictionary_name \in NameInputs,
          fields \in FieldsInputs :
           Invoke(t, "dictionary_get_fields", "CacheDictionaryGetFields", "DictionaryGet",
                  [cache_name |-> cache_name, dictionary_name |-> dictionary_name,
                   fields |-> fields],
                  cache_name,
                  dictionary_get_fields_request(cache_name, dictionary_name, fields))

dictionary_fetch(t) ==
    /\ call[t].pc = "idle"
    /\ \E cache_name \in CacheNameInputs, dictionary_name \in NameInputs :
           Invoke(t, "dictionary_fetch", "CacheDictionaryFetch", "DictionaryFetch",
                  [cache_name |-> cache_name, dictionary_name |-> dictionary_name],
                  cache_name, dictionary_fetch_request(cache_name, dictionary_name))

dictionary_increment(t) ==
    /\ call[t].pc = "idle"
    /\ \E cache_name \in CacheNameInputs, dictionary_name \in NameInputs,
          field \in FieldInputs, amount \in AmountInputs, ttl \in CollectionTtlInputs :
           Invoke(t, "dictionary_increment", "CacheDictionaryIncrement",
                  "DictionaryIncrement",
                  [cache_name |-> cache_name, dictionary_name |-> dictionary_name,
                   field |-> field, amount |-> amount, ttl |-> ttl],
                  cache_name,
                  dictionary_increment_request(self, cache_name, dictionary_name,
                                               field, amount, ttl))

dictionary_remove_fields(t) ==
    /\ call[t].pc = "idle"
    /\ \E cache_name \in CacheNameInputs, dictionary_name \in NameInputs,
          fields \in FieldsInputs :
           Invoke(t, "dictionary_remove_fields", "CacheDictionaryRemoveFields",
                  "DictionaryDelete",
                  [cache_name |-> cache_name, dictionary_name |-> dictionary_name,
                   fields |-> fields],
                  cache_name,
                  dictionary_remove_fields_request(cache_name, dictionary_name, fields))

dictionary_set_fields(t) ==
    /\ call[t].pc = "idle"
    /\ \E cache_name \in CacheNameInputs, dictionary_name \in NameInputs,
          items \in ItemsInputs, ttl \in CollectionTtlInputs :
           Invoke(t, "dictionary_set_fields", "CacheDictionarySetFields", "DictionarySet",
                  [cache_name |-> cache_name, dictionary_name |-> dictionary_name,
                   items |-> items, ttl |-> ttl],
                  cache_name,
                  dictionary_set_fields_request(self, cache_name, dictionary_name,
                                                items, ttl))

list_concatenate_back(t) ==
    /\ call[t].pc = "idle"
    /\ \E cache_name \in CacheNameInputs, list_name \in NameInputs,
          values \in FieldsInputs, ttl \in CollectionTtlInputs,
          truncate_front_to_size \in TruncateInputs :
           Invoke(t, "list_concatenate_back", "CacheListConcatenateBack",
                  "ListConcatenateBack",
                  [cache_name |-> cache_name, list_name |-> list_name, values |-> values,
                   ttl |-> ttl, truncate_front_to_size |-> truncate_front_to_size],
                  cache_name,
                  list_concatenate_back_request(self, cache_name, list_name, values,
                                                ttl, truncate_front_to_size))

list_concatenate_front(t) ==
    /\ call[t].pc = "idle"
    /\ \E cache_name \in CacheNameInputs, list_name \in NameInputs,
          values \in FieldsInputs, ttl \in CollectionTtlInputs,
          truncate_back_to_size \in TruncateInputs :
           Invoke(t, "list_concatenate_front", "CacheListConcatenateFront",
                  "ListConcatenateFront",
                  [cache_name |-> cache_name, list_name |-> list_name, values |-> values,
                   ttl |-> ttl, truncate_back_to_size |-> truncate_back_to_size],
                  cache_name,
                  list_concatenate_front_request(self, cache_name, list_name, values,
                                                 ttl, truncate_back_to_size))

list_fetch(t) ==
    /\ call[t].pc = "idle"
    /\ \E cache_name \in CacheNameInputs, list_name \in NameInputs :
           Invoke(t, "list_fetch", "CacheListFetch", "ListFetch",
                  [cache_name |-> cache_name, list_name |-> list_name],
                  cache_name, list_name_request(cache_name, list_name))

list_length(t) ==
    /\ call[t].pc = "idle"
    /\ \E cache_name \in CacheNameInputs, list_name \in NameInputs :
           Invoke(t, "list_length", "CacheListLength", "ListLength",
                  [cache_name |-> cache_name, list_name |-> list_name],
                  cache_name, list_name_request(cache_name, list_name))

list_pop_back(t) ==
    /\ call[t].pc = "idle"
    /\ \E cache_name \in CacheNameInputs, list_name \in NameInputs :
           Invoke(t, "list_pop_back", "CacheListPopBack", "ListPopBack",
                  [cache_name |-> cache_name, list_name |-> list_name],
                  cache_name, list_name_request(cache_name, list_name))

list_pop_front(t) ==
    /\ call[t].pc = "idle"
    /\ \E cache_name \in CacheNameInputs, list_name \in NameInputs :
           Invoke(t, "list_pop_front", "CacheListPopFront", "ListPopFront",
                  [cache_name |-> cache_name, list_name |-> list_name],
                  cache_name, list_name_request(cache_name, list_name))

list_push_back(t) ==
    /\ call[t].pc = "idle"
    /\ \E cache_name \in CacheNameInputs, list_name \in NameInputs,
          value \in FieldInputs, ttl \in CollectionTtlInputs,
          truncate_front_to_size \in TruncateInputs :
           Invoke(t, "list_push_back", "CacheListPushBack", "ListPushBack",
                  [cache_name |-> cache_name, list_name |-> list_name, value |-> value,
                   ttl |-> ttl, truncate_front_to_size |-> truncate_front_to_size],
                  cache_name,
                  list_push_request(self, cache_name, list_name, value, ttl,
                                    truncate_front_to_size))

list_push_front(t) ==
    /\ call[t].pc = "idle"
    /\ \E cache_name \in CacheNameInputs, list_name \in NameInputs,
          value \in FieldInputs, ttl \in CollectionTtlInputs,
          truncate_back_to_size \in TruncateInputs :
           Invoke(t, "list_push_front", "CacheListPushFront", "ListPushFront",
                  [cache_name |-> cache_name, list_name |-> list_name, value |-> value,
                   ttl |-> ttl, truncate_back_to_size |-> truncate_back_to_size],
                  cache_name,
                  list_push_request(self, cache_name, list_name, value, ttl,
                                    truncate_back_to_size))

list_remove_value(t) ==
    /\ call[t].pc = "idle"
    /\ \E cache_name \in CacheNameInputs, list_name \in NameInputs,
          value \in FieldInputs :
           Invoke(t, "list_remove_value", "CacheListRemoveValue", "ListRemove",
                  [cache_name |-> cache_name, list_name |-> list_name, value |-> value],
                  cache_name, list_remove_value_request(cache_name, list_name, value))

set_add_elements(t) ==
    /\ call[t].pc = "idle"
    /\ \E cache_name \in CacheNameInputs, set_name \in NameInputs,
          elements \in FieldsInputs, ttl \in CollectionTtlInputs :
           Invoke(t, "set_add_elements", "CacheSetAddElements", "SetUnion",
                  [cache_name |-> cache_name, set_name |-> set_name,
                   elements |-> elements, ttl |-> ttl],
                  cache_name,
                  set_add_elements_request(self, cache_name, set_name, elements, ttl))

set_fetch(t) ==
    /\ call[t].pc = "idle"
    /\ \E cache_name \in CacheNameInputs, set_name \in NameInputs :
           Invoke(t, "set_fetch", "CacheSetFetch", "SetFetch",
                  [cache_name |-> cache_name, set_name |-> set_name],
                  cache_name, set_fetch_request(cache_name, set_name))

set_remove_elements(t) ==
    /\ call[t].pc = "idle"
    /\ \E cache_name \in CacheNameInputs, set_name \in NameInputs,
          elements \in FieldsInputs :
           Invoke(t, "set_remove_elements", "CacheSetRemoveElements", "SetDifference",
                  [cache_name |-> cache_name, set_name |-> set_name,
                   elements |-> elements],
                  cache_name, set_remove_elements_request(cache_name, set_name, elements))

\* the awaited stub call returns a response: the handler maps it
Responded(t, response) ==
    LET r == OnResponse(call[t].op, call[t].rpc[1].request, response)
    IN [call[t] EXCEPT !.pc = "done", !.stub = "returned",
                       !.response = Some(response), !.exc = r.raised,
                       !.result = IF r.raised # None
                                  THEN except_Exception(call[t].family, r.raised[1])
                                  ELSE Returns(r.val[1])]

Respond(t, response) == call' = [call EXCEPT ![t] = Responded(t, response)]

TransportReturns(t) ==
    /\ call[t].pc = "awaiting"
    /\ \E response \in Responses(call[t].rpc[1].method) : Respond(t, response)
    /\ UNCHANGED <<self, cache, client, channels, service>>

\* the failures the awaited stub call can raise: a status, or no status at all
TransportFailures ==
    { RpcError(s) : s \in RpcStatuses }
    \cup { PyException("RuntimeError", "connection lost") }

\* the awaited stub call raises: the except branch converts the failure
Failed(t, e) ==
    [call[t] EXCEPT !.pc = "done", !.stub = "raised", !.exc = Some(e),
                    !.result = except_Exception(call[t].family, e)]

Fail(t, e) == call' = [call EXCEPT ![t] = Failed(t, e)]

TransportRaises(t) ==
    /\ call[t].pc = "awaiting"
    /\ \E e \in TransportFailures : Fail(t, e)
    /\ UNCHANGED <<self, cache, client, channels, service>>

\* a second passes while the stub call is pending, up to its timeout
Tick(t) ==
    /\ call[t].pc = "awaiting"
    /\ call[t].rpc[1].timeout # None
    /\ call[t].waited < call[t].rpc[1].timeout[1]
    /\ call' = [call EXCEPT ![t].waited = @ + 1]
    /\ UNCHANGED <<self, cache, client, channels, service>>

\* the timeout of the dispatch has passed: the stub call raises DEADLINE_EXCEEDED
DeadlineExceeded(t) ==
    /\ call[t].pc = "awaiting"
    /\ call[t].rpc[1].timeout # None
    /\ call[t].waited >= call[t].rpc[1].timeout[1]
    /\ Fail(t, RpcError("DEADLINE_EXCEEDED"))
    /\ UNCHANGED <<self, cache, client, channels, service>>

\* asyncio.CancelledError as the interpreter defines it: a subclass of
\* Exception up to Python 3.7, of BaseException alone from Python 3.8 on; the
\* module (from __future__ import annotations) runs on both
CancelledErrors ==
    { PyException("CancelledError", ""), PyBaseException("CancelledError", "") }

\* an exception thrown into the handler at its await: `except Exception`
\* catches it when it is an Exception, and it leaves the method otherwise
try_await(family, e) ==
    IF e.kind = "BaseException" THEN Raises(e) ELSE except_Exception(family, e)

\* the calling task is cancelled while the stub call is pending: the await
\* raises asyncio.CancelledError into the handler
Cancel(t) ==
    /\ call[t].pc = "awaiting"
    /\ \E e \in CancelledErrors :
          call' = [call EXCEPT ![t] =
              [@ EXCEPT !.pc = "done", !.stub = "cancelled", !.exc = Some(e),
                        !.result = try_await(call[t].family, e)]]
    /\ UNCHANGED <<self, cache, client, channels, service>>

\* the caller takes the outcome; the task is free for its next call
Return(t) ==
    /\ call[t].pc = "done"
    /\ call' = [call EXCEPT ![t] = Idle]
    /\ UNCHANGED <<self, cache, client, channels, service>>

----------------------------------------------------------------------------
(* Cache: the blocking client (src/src/momento/cache.py) *)

InvalidInputError(text) ==
    SdkException("InvalidInputError", "INVALID_ARGUMENT_ERROR", text, None)

\* _cache_service_errors_converter.convert: as convert_error
convert(e) ==
    IF e.kind = "SdkException" THEN e
    ELSE IF e.kind = "RpcError"
         THEN SdkException("SdkError", StatusToCode(e.status), e.message, Some(e))
         ELSE SdkException("ClientSdkError", "UNKNOWN_ERROR", e.message, Some(e))

\* Cache._asBytes
_asBytes(data, errorMessage) ==
    IF data.type = "str" THEN [raised |-> None, val |-> Utf8Encode(data.val)]
    ELSE IF data.type = "bytes" THEN [raised |-> None, val |-> data.val]
    ELSE [raised |-> Some(InvalidInputError(errorMessage \o TypeName(data))),
          val |-> <<>>]

\* Cache._validate_ttl
Cache_validate_ttl(ttl_seconds) ==
    IF ttl_seconds.type # "int" \/ ttl_seconds.val[1] <= 0
    THEN Some(InvalidInputError("TTL Seconds must be a non-zero positive integer."))
    ELSE None

CacheTtlInputs == { PyNone, PyInt(-1), PyInt(0), PyInt(5), Str(<<53>>) }
CacheDefaultTtlInputs == { PyInt(60) }

\* Cache.set, up to the stub call
Cache_set_request(csh, key, value, ttl_seconds) ==
    LET item_ttl_seconds ==
            IF ttl_seconds = PyNone THEN csh._default_ttlSeconds ELSE ttl_seconds
        cache_key == _asBytes(key, "Unsupported type for key: ")
        cache_body == _asBytes(value, "Unsupported type for value: ")
        raised == FirstRaised(<< Cache_validate_ttl(item_ttl_seconds),
                                 cache_key.raised, cache_body.raised >>)
    IN IF raised # None THEN Raised(raised)
       ELSE Built([cache_key |-> cache_key.val, cache_body |-> cache_body.val,
                   ttl_milliseconds |-> item_ttl_seconds.val[1] * 1000])

\* Cache.get, up to the stub call
Cache_get_request(key) ==
    LET cache_key == _asBytes(key, "Unsupported type for key: ")
    IN IF cache_key.raised # None THEN Raised(cache_key.raised)
       ELSE Built([cache_key |-> cache_key.val])

\* self._client.Set(set_request) / self._client.Get(get_request): the stub is
\* called with the request alone
Cache_stub_call(method, request) ==
    [method |-> method, request |-> request, metadata |-> None, timeout |-> None]

\* the except branch re-raising the failure it caught, unconverted
Cache_except_Exception_unconverted(e) == Raises(e)

\* except Exception as e: raise _cache_service_errors_converter.convert(e)
Cache_except_Exception(e) == Raises(convert(e))

\* return cache_sdk_resp.Cache<X>Response(response, ...)
Cache_return(value) == Returns(value)

\* how a finished get shows in the caller: _connect re-converts what get
\* raised and returns self otherwise
Cache_finish(op, result) ==
    IF op # "_connect" THEN result
    ELSE IF result.raised # None THEN Cache_except_Exception(result.raised[1])
    ELSE Cache_return([cls |-> "Cache"])

CacheObject(default_ttlSeconds) ==
    [_default_ttlSeconds |-> default_ttlSeconds, pc |-> "idle", op |-> "",
     args |-> <<>>, rpc |-> None, exc |-> None, result |-> NoResult]

\* before Cache.__init__ has run no attribute is set
NoCache == CacheObject(PyNone)

Cache_invoke(op, method, args, built) ==
    /\ client.cls = "Cache" /\ client.state \in { "constructed", "entered" }
    /\ cache' =
          IF built.raised # None
          THEN [cache EXCEPT !.pc = "done", !.op = op, !.args = args,
                             !.exc = built.raised,
                             !.result = Cache_finish(op,
                                            Cache_except_Exception(built.raised[1]))]
          ELSE [cache EXCEPT !.pc = "blocked", !.op = op, !.args = args,
                             !.rpc = Some(Cache_stub_call(method, built.val[1]))]
    /\ UNCHANGED <<self, call, client, channels, service>>

Cache_set ==
    /\ cache.pc = "idle"
    /\ \E key \in KeyInputs, value \in ValueInputs, ttl_seconds \in CacheTtlInputs :
          Cache_invoke("set", "Set",
                       [key |-> key, value |-> value, ttl_seconds |-> ttl_seconds],
                       Cache_set_request(cache, key, value, ttl_seconds))

Cache_get ==
    /\ cache.pc = "idle"
    /\ \E key \in KeyInputs :
          Cache_invoke("get", "Get", [key |-> key], Cache_get_request(key))

\* Cache._connect: self.get(uuid.uuid1().bytes)
Cache_connect ==
    /\ cache.pc = "idle"
    /\ \E uuid \in { Bytes(<<17, 34>>) } :
          Cache_invoke("_connect", "Get", [key |-> uuid], Cache_get_request(uuid))

\* the blocking stub call returns
Cache_stub_returns ==
    /\ cache.pc = "blocked"
    /\ \E response \in Responses(cache.rpc[1].method) :
          LET value == IF cache.op = "set"
                       THEN [cls |-> "CacheSetResponse", response |-> response,
                             value |-> cache.rpc[1].request.cache_body]
                       ELSE [cls |-> "CacheGetResponse", response |-> response,
                             value |-> response.cache_body]
          IN cache' = [cache EXCEPT !.pc = "done",
                          !.result = Cache_finish(cache.op, Cache_return(value))]
    /\ UNCHANGED <<self, call, client, channels, service>>

\* the blocking stub call raises
Cache_stub_raises ==
    /\ cache.pc = "blocked"
    /\ \E e \in TransportFailures :
          cache' = [cache EXCEPT !.pc = "done", !.exc = Some(e),
                        !.result = Cache_finish(cache.op, Cache_except_Exception(e))]
    /\ UNCHANGED <<self, call, client, channels, service>>

\* the caller has the value or the exception; the client is free again
Cache_done ==
    /\ cache.pc = "done"
    /\ cache' = CacheObject(cache._default_ttlSeconds)
    /\ UNCHANGED <<self, call, client, channels, service>>

----------------------------------------------------------------------------
(* Construction and shutdown *)

\* a transport channel: how often it was opened, and whether it is open
NoChannel == [opened |-> 0, open |-> FALSE]

\* _DataGrpcManager(credential_provider): the manager opens the channel
_DataGrpcManager(channel) == [opened |-> channel.opened + 1, open |-> TRUE]

\* _DataGrpcManager.close()
_DataGrpcManager_close(channel) == [channel EXCEPT !.open = FALSE]

\* grpc.secure_channel(endpoint, grpc.ssl_channel_credentials())
secure_channel(channel) == [opened |-> channel.opened + 1, open |-> TRUE]

\* the client the program holds
NoClient ==
    [cls |-> "", state |-> "none", args |-> <<>>, raised |-> None, exc |-> None]

cache_endpoint == "cache.cell.example.com"

\* default TTLs handed to a constructor: those of the calls, and a negative one
ConstructorTtlInputs == DefaultTtlInputs \cup { -1000000 }
CacheConstructorTtlInputs ==
    CacheDefaultTtlInputs \cup { PyInt(0), PyInt(-1), Str(<<54, 48>>) }

\* the step of Cache.__init__ after the channel is opened that raises (a
\* malformed token, a cache name the interceptor refuses), if any
ConstructionFailures ==
    { None, Some("get_authorization_interceptor"), Some("get_cache_name_interceptor") }

\* the attributes __init__ sets
_ScsDataClient(default_ttl, default_deadline) ==
    [_endpoint |-> cache_endpoint,
     _default_deadline_seconds |-> total_whole_seconds(default_deadline),
     _grpc_manager |-> "_DataGrpcManager",
     _default_ttl |-> default_ttl,
     default_deadline |-> default_deadline]

\* _ScsDataClient.__init__ that takes any default TTL
__init___unvalidated(default_ttl, default_deadline, channel) ==
    [raised |-> None, _grpc_manager |-> _DataGrpcManager(channel),
     self |-> _ScsDataClient(default_ttl, default_deadline)]

\* _ScsDataClient.__init__: the endpoint and the deadline are stored, the
\* manager is created, and only then is the default TTL validated; a raise
\* leaves __init__ with no further statement run
__init__(default_ttl, default_deadline, channel) ==
    [raised |-> _validate_ttl(default_ttl),
     _grpc_manager |-> _DataGrpcManager(channel),
     self |-> _ScsDataClient(default_ttl, default_deadline)]

\* SimpleCacheClientAsync(...) constructing its _ScsDataClient
_ScsDataClient_new ==
    /\ client.state = "none"
    /\ \E default_ttl \in ConstructorTtlInputs, default_deadline \in DeadlineInputs :
          LET r == __init__(default_ttl, default_deadline, channels._grpc_manager)
          IN /\ channels' = [channels EXCEPT !._grpc_manager = r._grpc_manager]
             /\ self' = IF r.raised = None THEN r.self ELSE None
             /\ client' = [cls |-> "_ScsDataClient",
                           state |-> IF r.raised = None THEN "constructed" ELSE "failed",
                           args |-> [default_ttl |-> default_ttl,
                                     default_deadline |-> default_deadline],
                           raised |-> r.raised, exc |-> None]
    /\ UNCHANGED <<call, cache, service>>

\* _ScsDataClient.close
close(t) ==
    /\ client.cls = "_ScsDataClient" /\ client.state = "constructed"
    /\ call[t].pc = "idle"
    /\ channels' = [channels EXCEPT !._grpc_manager = _DataGrpcManager_close(@)]
    /\ client' = [client EXCEPT !.state = "closed"]
    /\ UNCHANGED <<self, call, cache, service>>

\* Cache.__init__ that accepts any default TTL
Cache_init_unvalidated(default_ttlSeconds, failing, channel) ==
    [raised |-> IF failing # None THEN Some(PyException("ValueError", failing[1]))
                ELSE None,
     _secure_channel |-> secure_channel(channel)]

\* Cache.__init__: the default TTL is validated first, then the secure channel
\* is opened, then the interceptors and the stub are created
Cache_init(default_ttlSeconds, failing, channel) ==
    LET invalid == Cache_validate_ttl(default_ttlSeconds)
    IN IF invalid # None
       THEN [raised |-> invalid, _secure_channel |-> channel]
       ELSE [raised |-> IF failing # None
                        THEN Some(PyException("ValueError", failing[1]))
                        ELSE None,
             _secure_channel |-> secure_channel(channel)]

\* Cache(auth_token, cache_name, endpoint, default_ttlSeconds)
Cache_new ==
    /\ client.state = "none"
    /\ \E default_ttlSeconds \in CacheConstructorTtlInputs,
          failing \in ConstructionFailures :
          LET r == Cache_init(default_ttlSeconds, failing, channels._secure_channel)
          IN /\ channels' = [channels EXCEPT !._secure_channel = r._secure_channel]
             /\ cache' = IF r.raised = None THEN CacheObject(default_ttlSeconds)
                         ELSE NoCache
             /\ client' = [cls |-> "Cache",
                           state |-> IF r.raised = None THEN "constructed" ELSE "failed",
                           args |-> [default_ttlSeconds |-> default_ttlSeconds,
                                     failing |-> failing],
                           raised |-> r.raised, exc |-> None]
    /\ UNCHANGED <<self, call, service>>

\* Cache.__enter__: return self
Cache_enter ==
    /\ client.cls = "Cache" /\ client.state = "constructed"
    /\ cache.pc = "idle"
    /\ client' = [client EXCEPT !.state = "entered"]
    /\ UNCHANGED <<self, call, cache, channels, service>>

\* exceptions the body of a `with` block can end with, besides those a call
\* on the client raised
BodyExceptions == { PyException("KeyError", "body") }

\* Cache.__exit__ that closes the channel only when the body ended normally
__exit___only_on_success(channel, exc_value) ==
    [_secure_channel |-> IF exc_value = None THEN [channel EXCEPT !.open = FALSE]
                         ELSE channel,
     returns |-> PyNone]

\* Cache.__exit__(exc_type, exc_value, exc_traceback):
\* self._secure_channel.close(); it returns None, so the exception of the
\* body, if any, propagates out of the `with` statement
__exit__(channel, exc_value) ==
    [_secure_channel |-> [channel EXCEPT !.open = FALSE], returns |-> PyNone]

\* the `with` block is left: after a call that raised, with that exception;
\* otherwise normally or with an exception of the body's own
Cache_exit ==
    /\ client.cls = "Cache" /\ client.state = "entered"
    /\ cache.pc \in { "idle", "done" }
    /\ \E exc_value \in
            IF cache.pc = "done" /\ cache.result.raised # None
            THEN { cache.result.raised }
            ELSE { None } \cup { Some(e) : e \in BodyExceptions } :
          LET r == __exit__(channels._secure_channel, exc_value)
          IN /\ channels' = [channels EXCEPT !._secure_channel = r._secure_channel]
             /\ client' = [client EXCEPT !.state = "exited",
                                         !.raised = exc_value,
                                         !.exc = IF r.returns = PyNone THEN exc_value
                                                 ELSE None]
    /\ cache' = CacheObject(cache._default_ttlSeconds)
    /\ UNCHANGED <<self, call, service>>

\* the remote service before any cache was created
NoService ==
    [caches |-> {}, indexes |-> {}, items |-> {}, now |-> 0,
     last |-> None, before |-> None,
     metric |-> "", vectors |-> {},
     deleted |-> {}]       \* the keys deleted and not set since

Init ==
    /\ self = None
    /\ call = [t \in Tasks |-> Idle]
    /\ cache = NoCache
    /\ client = NoClient
    /\ channels = [_grpc_manager |-> NoChannel, _secure_channel |-> NoChannel]
    /\ service = NoService

Next ==
    \/ \E t \in Tasks : set(t)
    \/ \E t \in Tasks : set_if_not_exists(t)
    \/ \E t \in Tasks : get(t)
    \/ \E t \in Tasks : delete(t)
    \/ \E t \in Tasks : dictionary_get_fields(t)
    \/ \E t \in Tasks : dictionary_fetch(t)
    \/ \E t \in Tasks : dictionary_increment(t)
    \/ \E t \in Tasks : dictionary_remove_fields(t)
    \/ \E t \in Tasks : dictionary_set_fields(t)
    \/ \E t \in Tasks : list_concatenate_back(t)
    \/ \E t \in Tasks : list_concatenate_front(t)
    \/ \E t \in Tasks : list_fetch(t)
    \/ \E t \in Tasks : list_length(t)
    \/ \E t \in Tasks : list_pop_back(t)
    \/ \E t \in Tasks : list_pop_front(t)
    \/ \E t \in Tasks : list_push_back(t)
    \/ \E t \in Tasks : list_push_front(t)
    \/ \E t \in Tasks : list_remove_value(t)
    \/ \E t \in Tasks : set_add_elements(t)
    \/ \E t \in Tasks : set_fetch(t)
    \/ \E t \in Tasks : set_remove_elements(t)
    \/ \E t \in Tasks : TransportReturns(t)
    \/ \E t \in Tasks : TransportRaises(t)
    \/ \E t \in Tasks : Tick(t)
    \/ \E t \in Tasks : DeadlineExceeded(t)
    \/ \E t \in Tasks : Cancel(t)
    \/ \E t \in Tasks : Return(t)
    \/ _ScsDataClient_new
    \/ \E t \in Tasks : close(t)
    \/ Cache_new
    \/ Cache_enter
    \/ Cache_exit
    \/ Cache_set
    \/ Cache_get
    \/ Cache_connect
    \/ Cache_stub_returns
    \/ Cache_stub_raises
    \/ Cache_done

Spec == Init /\ [][Next]_vars

----------------------------------------------------------------------------
(* Two tasks sharing one constructed _ScsDataClient.  Each task runs one    *)
(* call at a time; the calls of the two tasks interleave freely at their   *)
(* awaits.                                                                 *)

ConcurrentTasks == { "t1", "t2" }
ConcurrentCacheNames == { Str(<<99>>), Str(<<100>>) }
ConcurrentKeys == { Str(<<107, 233>>), PyInt(1) }
ConcurrentValues == { Str(<<118>>), Bytes(<<0>>) }
ConcurrentTtls == { None, Some(2000000) }

ConcurrentInit ==
    /\ self = _ScsDataClient(60000000, 2000000)
    /\ call = [t \in ConcurrentTasks |-> Idle]
    /\ cache = NoCache
    /\ client = [NoClient EXCEPT !.cls = "_ScsDataClient", !.state = "constructed",
                                 !.args = [default_ttl |-> 60000000,
                                           default_deadline |-> 2000000]]
    /\ channels = [_grpc_manager |-> _DataGrpcManager(NoChannel),
                   _secure_channel |-> NoChannel]
    /\ service = NoService

concurrent_set(t) ==
    /\ call[t].pc = "idle"
    /\ \E cache_name \in ConcurrentCacheNames, key \in ConcurrentKeys,
          value \in ConcurrentValues, ttl \in ConcurrentTtls :
           Invoke(t, "set", "CacheSet", "Set",
                  [cache_name |-> cache_name, key |-> key, value |-> value, ttl |-> ttl],
                  cache_name, set_request(self, cache_name, key, value, ttl))

concurrent_get(t) ==
    /\ call[t].pc = "idle"
    /\ \E cache_name \in ConcurrentCacheNames, key \in ConcurrentKeys :
           Invoke(t, "get", "CacheGet", "Get",
                  [cache_name |-> cache_name, key |-> key],
                  cache_name, get_request(cache_name, key))

concurrent_list_push_back(t) ==
    /\ call[t].pc = "idle"
    /\ \E cache_name \in ConcurrentCacheNames, value \in ConcurrentValues,
          ttl \in { CollectionTtl(tt, TRUE) : tt \in ConcurrentTtls } :
           Invoke(t, "list_push_back", "CacheListPushBack", "ListPushBack",
                  [cache_name |-> cache_name, list_name |-> Str(<<108>>),
                   value |-> value, ttl |-> ttl, truncate_front_to_size |-> None],
                  cache_name,
                  list_push_request(self, cache_name, Str(<<108>>), value, ttl, None))

ConcurrentNext ==
    \/ \E t \in ConcurrentTasks : concurrent_set(t)
    \/ \E t \in ConcurrentTasks : concurrent_get(t)
    \/ \E t \in ConcurrentTasks : concurrent_list_push_back(t)
    \/ \E t \in ConcurrentTasks : TransportReturns(t)
    \/ \E t \in ConcurrentTasks : TransportRaises(t)
    \/ \E t \in ConcurrentTasks : Cancel(t)
    \/ \E t \in ConcurrentTasks : Return(t)

ConcurrentSpec == ConcurrentInit /\ [][ConcurrentNext]_vars

----------------------------------------------------------------------------
(* One task calling set, get and delete against the cache service as the   *)
(* tests (src/tests/test_momento_async.py) show it to behave: an item set   *)
(* with a TTL is returned by get until the TTL has passed and is a miss    *)
(* afterwards; a key never set, or deleted, is a miss; a call on a cache    *)
(* that does not exist fails with NOT_FOUND.  The service clock counts     *)
(* whole seconds.                                                          *)

MaxClock == 4

ServiceCacheNames == { Str(<<99>>), Str(<<100>>) }
ServiceKeys == { Str(<<107, 233>>), Bytes(<<107, 195, 169>>), Bytes(<<255>>) }
ServiceValues == { Str(<<118, 233>>), Bytes(<<255>>) }
ServiceTtls == { None, Some(2000000) }

\* bytes.decode("utf-8") of sequences of one and two bytes: None when the
\* bytes are not valid UTF-8 (UnicodeDecodeError)
RECURSIVE Utf8Decode(_)
Utf8Decode(bs) ==
    IF bs = <<>> THEN Some(<<>>)
    ELSE IF Head(bs) < 128
    THEN LET rest == Utf8Decode(Tail(bs))
         IN IF rest = None THEN None ELSE Some(<<Head(bs)>> \o rest[1])
    ELSE IF Head(bs) >= 194 /\ Head(bs) <= 223 /\ Len(bs) >= 2
            /\ bs[2] >= 128 /\ bs[2] <= 191
    THEN LET rest == Utf8Decode(Tail(Tail(bs)))
         IN IF rest = None THEN None
            ELSE Some(<<(Head(bs) - 192) * 64 + (bs[2] - 128)>> \o rest[1])
    ELSE None

\* ValueStringMixin.value_string: self.value_bytes.decode("utf-8")
value_string(value_bytes) == Utf8Decode(value_bytes)

\* the items the service holds under a key of a cache
ItemsAt(svc, cache_name, key) ==
    { i \in svc.items : i.cache = cache_name /\ i.key = key }

\* the answers of the service to a dispatched request; at the very instant
\* the TTL has passed the service may answer either way
Serve(svc, rpc, args) ==
    LET cache_name == rpc.metadata[2]
        held == ItemsAt(svc, cache_name, rpc.request.cache_key)
        answer(result, body, after) ==
            [service |-> after, raised |-> None,
             response |-> Some([result |-> result, cache_body |-> body])]
    IN IF cache_name \notin svc.caches
       THEN { [service |-> svc, raised |-> Some(RpcError("NOT_FOUND")),
               response |-> None] }
       ELSE CASE rpc.method = "Set" ->
                   { [service |->
                         [svc EXCEPT !.items = (@ \ held) \cup
                             { [cache |-> cache_name, key |-> rpc.request.cache_key,
                                value |-> rpc.request.cache_body,
                                ttl_milliseconds |-> rpc.request.ttl_milliseconds,
                                stored_at |-> svc.now,
                                source |-> args] },
                                     !.deleted = @ \ { << cache_name,
                                                          rpc.request.cache_key >> }],
                      raised |-> None, response |-> Some([result |-> "Ok"])] }
              [] rpc.method = "Delete" ->
                   { [service |-> [svc EXCEPT !.items = @ \ held,
                                              !.deleted = @ \cup { << cache_name,
                                                          rpc.request.cache_key >> }],
                      raised |-> None, response |-> Some([result |-> "Ok"])] }
              [] rpc.method = "Get" ->
                   IF held = {} THEN { answer("Miss", <<>>, svc) }
                   ELSE LET item == CHOOSE i \in held : TRUE
                            elapsed == (svc.now - item.stored_at) * 1000
                        IN (IF elapsed <= item.ttl_milliseconds
                            THEN { answer("Hit", item.value, svc) } ELSE {})
                           \cup
                           (IF elapsed >= item.ttl_milliseconds
                            THEN { answer("Miss", <<>>, svc) } ELSE {})

ServiceInit ==
    /\ self = _ScsDataClient(3000000, 2000000)
    /\ call = [t \in Tasks |-> Idle]
    /\ cache = NoCache
    /\ client = [NoClient EXCEPT !.cls = "_ScsDataClient", !.state = "constructed",
                                 !.args = [default_ttl |-> 3000000,
                                           default_deadline |-> 2000000]]
    /\ channels = [_grpc_manager |-> _DataGrpcManager(NoChannel),
                   _secure_channel |-> NoChannel]
    /\ service = [NoService EXCEPT !.caches = { <<99>> }]

service_set(t) ==
    /\ call[t].pc = "idle"
    /\ \E cache_name \in ServiceCacheNames, key \in ServiceKeys,
          value \in ServiceValues, ttl \in ServiceTtls :
           Invoke(t, "set", "CacheSet", "Set",
                  [cache_name |-> cache_name, key |-> key, value |-> value, ttl |-> ttl],
                  cache_name, set_request(self, cache_name, key, value, ttl))

service_get(t) ==
    /\ call[t].pc = "idle"
    /\ \E cache_name \in ServiceCacheNames, key \in ServiceKeys :
           Invoke(t, "get", "CacheGet", "Get",
                  [cache_name |-> cache_name, key |-> key],
                  cache_name, get_request(cache_name, key))

service_delete(t) ==
    /\ call[t].pc = "idle"
    /\ \E cache_name \in ServiceCacheNames, key \in ServiceKeys :
           Invoke(t, "delete", "CacheDelete", "Delete",
                  [cache_name |-> cache_name, key |-> key],
                  cache_name, delete_request(cache_name, key))

\* the service answers the pending call of task t
ServiceAnswers(t) ==
    /\ call[t].pc = "awaiting"
    /\ \E a \in Serve(service, call[t].rpc[1], call[t].args) :
          /\ service' = a.service
          /\ call' = [call EXCEPT ![t] =
                [(IF a.raised # None THEN Failed(t, a.raised[1])
                  ELSE Responded(t, a.response[1]))
                 EXCEPT !.served = Some([present |->
                     ItemsAt(service, call[t].rpc[1].metadata[2],
                             call[t].rpc[1].request.cache_key) # {}])]]
    /\ UNCHANGED <<self, cache, client, channels>>

\* a second passes; the caller takes a finished call's outcome at once
Elapse ==
    /\ service.now < MaxClock
    /\ \A t \in DOMAIN call : call[t].pc # "done"
    /\ service' = [service EXCEPT !.now = @ + 1]
    /\ UNCHANGED <<self, call, cache, client, channels>>

ServiceNext ==
    \/ \E t \in Tasks : service_set(t)
    \/ \E t \in Tasks : service_get(t)
    \/ \E t \in Tasks : service_delete(t)
    \/ \E t \in Tasks : ServiceAnswers(t)
    \/ \E t \in Tasks : Return(t)
    \/ Elapse

ServiceSpec == ServiceInit /\ [][ServiceNext]_vars

----------------------------------------------------------------------------
(* Two caches: the calls of one client name the cache they act on, and the *)
(* service keeps the items of each cache apart.                             *)

RoutingCacheNames == { Str(<<97>>), Str(<<98>>) }
RoutingKeys == { Str(<<107>>), Bytes(<<107>>), Bytes(<<108>>) }
RoutingValues == { Str(<<118>>), Bytes(<<119>>) }

RoutingInit ==
    /\ self = _ScsDataClient(3000000, 2000000)
    /\ call = [t \in Tasks |-> Idle]
    /\ cache = NoCache
    /\ client = [NoClient EXCEPT !.cls = "_ScsDataClient", !.state = "constructed",
                                 !.args = [default_ttl |-> 3000000,
                                           default_deadline |-> 2000000]]
    /\ channels = [_grpc_manager |-> _DataGrpcManager(NoChannel),
                   _secure_channel |-> NoChannel]
    /\ service = [NoService EXCEPT !.caches = { <<97>>, <<98>> }]

routing_set(t) ==
    /\ call[t].pc = "idle"
    /\ \E cache_name \in RoutingCacheNames, key \in RoutingKeys,
          value \in RoutingValues :
           Invoke(t, "set", "CacheSet", "Set",
                  [cache_name |-> cache_name, key |-> key, value |-> value,
                   ttl |-> None],
                  cache_name, set_request(self, cache_name, key, value, None))

routing_get(t) ==
    /\ call[t].pc = "idle"
    /\ \E cache_name \in RoutingCacheNames, key \in RoutingKeys :
           Invoke(t, "get", "CacheGet", "Get",
                  [cache_name |-> cache_name, key |-> key],
                  cache_name, get_request(cache_name, key))

routing_delete(t) ==
    /\ call[t].pc = "idle"
    /\ \E cache_name \in RoutingCacheNames, key \in RoutingKeys :
           Invoke(t, "delete", "CacheDelete", "Delete",
                  [cache_name |-> cache_name, key |-> key],
                  cache_name, delete_request(cache_name, key))

RoutingNext ==
    \/ \E t \in Tasks : routing_set(t)
    \/ \E t \in Tasks : routing_get(t)
    \/ \E t \in Tasks : routing_delete(t)
    \/ \E t \in Tasks : ServiceAnswers(t)
    \/ \E t \in Tasks : Return(t)

RoutingSpec == RoutingInit /\ [][RoutingNext]_vars

----------------------------------------------------------------------------
(* The control plane: creating and deleting caches and vector indexes.     *)
(* Neither control client is part of the sources at hand; their handlers   *)
(* follow the result model of the data client, and the service behaves as  *)
(* the tests show: creating what exists fails with ALREADY_EXISTS, deleting *)
(* what does not exist fails with NOT_FOUND.                                *)

ControlNames == { Str(<<99>>), Str(<<100>>), PyNone }

ControlFamily(op) ==
    CASE op = "create_cache" -> "CreateCache"
      [] op = "delete_cache" -> "DeleteCache"
      [] op = "create_index" -> "CreateIndex"
      [] op = "delete_index" -> "DeleteIndex"

\* a control handler up to its dispatch: the name is validated
control_request(name) ==
    LET raised == _validate_cache_name(name)
    IN IF raised # None THEN Raised(raised) ELSE Built([name |-> name.val])

\* a control handler whose except branch reports every failure as unknown
control_except_Exception_unclassified(family, e) ==
    Returns(Error(family, SdkException("UnknownException", "UNKNOWN_ERROR",
                                       e.message, Some(e))))

\* a control handler's except branch: return <Family>.Error(convert_error(e))
control_except_Exception(family, e) == Returns(Error(family, convert_error(e)))

\* the variant a create operation answers a name that exists with
AlreadyExists(family) ==
    IF family = "CreateCache" THEN "CacheAlreadyExists" ELSE "IndexAlreadyExists"

\* a create handler that converts every failure, ALREADY_EXISTS included
create_except_Exception_converts_all(family, e) ==
    control_except_Exception(family, e)

\* the except branch of create_cache and create_index: the ALREADY_EXISTS
\* status of the transport is answered with the dedicated variant, every
\* other failure with Error(convert_error(e))
create_except_Exception(family, e) ==
    IF e.kind = "RpcError" /\ e.status = "ALREADY_EXISTS"
    THEN Returns(Outcome(family, AlreadyExists(family), None))
    ELSE control_except_Exception(family, e)

\* a control handler after its dispatch returned
control_response(family) == Returns(Outcome(family, "Success", None))

ControlInit ==
    /\ self = _ScsDataClient(60000000, 2000000)
    /\ call = [t \in Tasks |-> Idle]
    /\ cache = NoCache
    /\ client = [NoClient EXCEPT !.cls = "_ScsDataClient", !.state = "constructed",
                                 !.args = [default_ttl |-> 60000000,
                                           default_deadline |-> 2000000]]
    /\ channels = [_grpc_manager |-> _DataGrpcManager(NoChannel),
                   _secure_channel |-> NoChannel]
    /\ service = NoService

control_call(t, op, name) ==
    Invoke(t, op, ControlFamily(op), op, [name |-> name], name, control_request(name))

create_cache(t) ==
    /\ call[t].pc = "idle"
    /\ \E name \in ControlNames : control_call(t, "create_cache", name)

delete_cache(t) ==
    /\ call[t].pc = "idle"
    /\ \E name \in ControlNames : control_call(t, "delete_cache", name)

create_index(t) ==
    /\ call[t].pc = "idle"
    /\ \E name \in ControlNames : control_call(t, "create_index", name)

delete_index(t) ==
    /\ call[t].pc = "idle"
    /\ \E name \in ControlNames : control_call(t, "delete_index", name)

\* the control plane answers the pending call of task t
ControlAnswers(t) ==
    /\ call[t].pc = "awaiting"
    /\ LET c == call[t]
           name == c.rpc[1].request.name
           oncaches == c.op \in { "create_cache", "delete_cache" }
           creating == c.op \in { "create_cache", "create_index" }
           existed == name \in (IF oncaches THEN service.caches ELSE service.indexes)
           failure == IF creating /\ existed THEN Some(RpcError("ALREADY_EXISTS"))
                      ELSE IF ~creating /\ ~existed THEN Some(RpcError("NOT_FOUND"))
                      ELSE None
           names == IF oncaches THEN service.caches ELSE service.indexes
           after == IF failure # None THEN names
                    ELSE IF creating THEN names \cup { name } ELSE names \ { name }
           result == IF failure = None THEN control_response(c.family)
                     ELSE IF creating THEN create_except_Exception(c.family, failure[1])
                     ELSE control_except_Exception(c.family, failure[1])
       IN /\ call' = [call EXCEPT ![t] =
                [@ EXCEPT !.pc = "done",
                          !.stub = IF failure # None THEN "raised" ELSE "returned",
                          !.exc = failure,
                          !.served = Some([existed |-> existed, previous |-> service.last,
                                           earlier |-> service.before]),
                          !.result = result]]
          /\ service' = [service EXCEPT
                !.caches = IF oncaches THEN after ELSE @,
                !.indexes = IF oncaches THEN @ ELSE after,
                !.items = IF c.op = "delete_cache" /\ failure = None
                          THEN { i \in @ : i.cache # name } ELSE @,
                !.last = Some([op |-> c.op, name |-> name,
                               succeeded |-> failure = None]),
                !.before = service.last]
    /\ UNCHANGED <<self, cache, client, channels>>

ControlNext ==
    \/ \E t \in Tasks : create_cache(t)
    \/ \E t \in Tasks : delete_cache(t)
    \/ \E t \in Tasks : create_index(t)
    \/ \E t \in Tasks : delete_index(t)
    \/ \E t \in Tasks : ControlAnswers(t)
    \/ \E t \in Tasks : Return(t)

ControlSpec == ControlInit /\ [][ControlNext]_vars

----------------------------------------------------------------------------
(* Vector search.  The vector index client is not part of the sources at   *)
(* hand: its search validates, passes top_k and score_threshold through and *)
(* reshapes the hits it is answered with; ranking and filtering are the     *)
(* service's, as the tests show them.                                       *)

Metrics == { "COSINE_SIMILARITY", "INNER_PRODUCT", "EUCLIDEAN_SIMILARITY" }

\* the items of the tests, and one more that ties with the second
VectorItems ==
    { [id |-> "test_item_1", vector |-> <<1, 1>>],
      [id |-> "test_item_2", vector |-> <<-1, 1>>],
      [id |-> "test_item_3", vector |-> <<-1, -1>>],
      [id |-> "test_item_4", vector |-> <<1, -1>>] }

QueryVectors == { <<2, 2>>, <<-2, -2>> }
IndexNames == { Str(<<105>>), Str(<<106>>), Str(<<>>) }
TopKInputs == { PyInt(-1), PyInt(0), PyInt(1), PyInt(2), PyInt(3), PyNone, Str(<<50>>) }
ScoreThresholdInputs ==
    { None, Some(-5), Some(-1), Some(0), Some(1), Some(3), Some(4), Some(20) }

Dot(v, q) == v[1] * q[1] + v[2] * q[2]

\* the distance the service reports for an item.  Every item vector has
\* length sqrt(2) and every query vector length sqrt(8), so that the cosine
\* is the inner product over 4.
Distance(metric, v, q) ==
    CASE metric = "INNER_PRODUCT" -> Dot(v, q)
      [] metric = "COSINE_SIMILARITY" -> TruncDiv(Dot(v, q), 4)
      [] metric = "EUCLIDEAN_SIMILARITY" ->
            (v[1] - q[1]) * (v[1] - q[1]) + (v[2] - q[2]) * (v[2] - q[2])

\* distance a ranks strictly before distance b
Better(metric, a, b) == IF metric = "EUCLIDEAN_SIMILARITY" THEN a < b ELSE a > b

\* the cutoff: a similarity above the threshold, a Euclidean distance below it
Passes(metric, d, score_threshold) ==
    \/ score_threshold = None
    \/ Better(metric, d, score_threshold[1])

\* the answers of the service to a search: the best top_k of the items that
\* pass the cutoff, best first, ties in either order
SearchResults(svc, request) ==
    LET d(i) == Distance(svc.metric, i.vector, request.query_vector)
        passing == { i \in svc.vectors : Passes(svc.metric, d(i), request.score_threshold) }
        n == Min({ request.top_k, Cardinality(passing) })
        ranked == { r \in [1..n -> passing] :
                      /\ \A i, j \in 1..n : i < j =>
                            /\ r[i] # r[j]
                            /\ ~Better(svc.metric, d(r[j]), d(r[i]))
                      /\ \A x \in passing \ { r[i] : i \in 1..n } :
                            \A i \in 1..n : ~Better(svc.metric, d(x), d(r[i])) }
    IN { [i \in 1..n |-> [id |-> r[i].id, distance |-> d(r[i])]] : r \in ranked }

_validate_index_name(index_name) ==
    _validate_name(index_name, "Vector index name must be a string",
                   "Vector index name must not be empty")

_validate_top_k(top_k) ==
    IF top_k.type # "int" \/ top_k.val[1] <= 0
    THEN Some(InvalidArgumentException("Top k must be a positive integer."))
    ELSE None

\* search sending no score threshold
search_request_without_threshold(index_name, query_vector, top_k, score_threshold) ==
    LET raised == FirstRaised(<< _validate_index_name(index_name),
                                 _validate_top_k(top_k) >>)
    IN IF raised # None THEN Raised(raised)
       ELSE Built([index_name |-> index_name.val, query_vector |-> query_vector,
                   top_k |-> top_k.val[1], score_threshold |-> None])

\* search, up to the dispatch
search_request(index_name, query_vector, top_k, score_threshold) ==
    LET raised == FirstRaised(<< _validate_index_name(index_name),
                                 _validate_top_k(top_k) >>)
    IN IF raised # None THEN Raised(raised)
       ELSE Built([index_name |-> index_name.val, query_vector |-> query_vector,
                   top_k |-> top_k.val[1], score_threshold |-> score_threshold])

SearchHit(id, distance) == [id |-> id, distance |-> distance, metadata |-> <<>>]

\* search after its dispatch returned: the hits reshaped, in their order
search_response(response) ==
    Returns(Outcome("Search", "Success",
                    Some([i \in 1..Len(response.hits) |->
                            SearchHit(response.hits[i].id, response.hits[i].distance)])))

upsert_item_batch_request(index_name, items) ==
    LET raised == _validate_index_name(index_name)
    IN IF raised # None THEN Raised(raised)
       ELSE Built([index_name |-> index_name.val, items |-> items])

SearchInit ==
    /\ self = _ScsDataClient(60000000, 2000000)
    /\ call = [t \in Tasks |-> Idle]
    /\ cache = NoCache
    /\ client = [NoClient EXCEPT !.cls = "_ScsDataClient", !.state = "constructed",
                                 !.args = [default_ttl |-> 60000000,
                                           default_deadline |-> 2000000]]
    /\ channels = [_grpc_manager |-> _DataGrpcManager(NoChannel),
                   _secure_channel |-> NoChannel]
    /\ \E metric \in Metrics :
          service = [NoService EXCEPT !.indexes = { <<105>> }, !.metric = metric]

upsert_item_batch(t) ==
    /\ call[t].pc = "idle"
    /\ \E index_name \in IndexNames, item \in VectorItems :
          Invoke(t, "upsert_item_batch", "UpsertItemBatch", "UpsertItemBatch",
                 [index_name |-> index_name, items |-> << item >>],
                 index_name, upsert_item_batch_request(index_name, << item >>))

search(t) ==
    /\ call[t].pc = "idle"
    /\ \E index_name \in IndexNames, query_vector \in QueryVectors,
          top_k \in TopKInputs, score_threshold \in ScoreThresholdInputs :
          Invoke(t, "search", "Search", "Search",
                 [index_name |-> index_name, query_vector |-> query_vector,
                  top_k |-> top_k, score_threshold |-> score_threshold],
                 index_name,
                 search_request(index_name, query_vector, top_k, score_threshold))

\* the service answers the pending vector call of task t
SearchAnswers(t) ==
    /\ call[t].pc = "awaiting"
    /\ LET c == call[t]
           request == c.rpc[1].request
       IN IF request.index_name \notin service.indexes
          THEN /\ call' = [call EXCEPT ![t] =
                     [@ EXCEPT !.pc = "done", !.stub = "raised",
                               !.exc = Some(RpcError("NOT_FOUND")),
                               !.result = control_except_Exception(
                                              c.family, RpcError("NOT_FOUND"))]]
               /\ UNCHANGED service
          ELSE IF c.op = "upsert_item_batch"
          THEN /\ call' = [call EXCEPT ![t] =
                     [@ EXCEPT !.pc = "done", !.stub = "returned",
                               !.result = control_response(c.family)]]
               /\ service' = [service EXCEPT !.vectors =
                     { i \in @ : \A k \in 1..Len(request.items) :
                                    request.items[k].id # i.id }
                     \cup { request.items[k] : k \in 1..Len(request.items) }]
          ELSE /\ \E hits \in SearchResults(service, request) :
                     call' = [call EXCEPT ![t] =
                        [@ EXCEPT !.pc = "done", !.stub = "returned",
                                  !.response = Some([hits |-> hits]),
                                  !.result = search_response([hits |-> hits])]]
               /\ UNCHANGED service
    /\ UNCHANGED <<self, cache, client, channels>>

SearchNext ==
    \/ \E t \in Tasks : upsert_item_batch(t)
    \/ \E t \in Tasks : search(t)
    \/ \E t \in Tasks : SearchAnswers(t)
    \/ \E t \in Tasks : Return(t)

SearchSpec == SearchInit /\ [][SearchNext]_vars

\* time passes while a dispatch is pending, and a deadline that has passed fires
FairSpec ==
    Spec /\ \A t \in Tasks : WF_vars(Tick(t)) /\ WF_vars(DeadlineExceeded(t))

----------------------------------------------------------------------------
(* Properties *)

ScalarOps == { "set", "set_if_not_exists", "get", "delete" }

\* the call of task t ended with the Error variant of its operation
ReturnedError(t) ==
    /\ call[t].result.raised = None
    /\ call[t].result.returned # None
    /\ call[t].result.returned[1].variant = "Error"
    /\ call[t].result.returned[1].family = call[t].family
    /\ call[t].result.returned[1]._error # None

ErrorCodeOf(t) == call[t].result.returned[1]._error[1].error_code

\* C1: for every _ScsDataClient operation, when the code before the dispatch
\* raised (local validation, byte conversion) or the transport call raised, the
\* call raises nothing and returns the Error variant of that operation.
C1_FailuresBecomeErrorValues ==
    \A t \in Tasks :
        (call[t].pc = "done" /\ call[t].exc # None /\ call[t].stub \in { "", "raised" })
            => ReturnedError(t)

\* a list operation whose transport call raised, and a scalar one refused by
\* its validation
C1_Witness ==
    \E t \in Tasks :
        /\ call[t].pc = "done"
        /\ call[t].op = "list_push_back"
        /\ call[t].stub = "raised"
        /\ call[t].exc # None
        /\ ReturnedError(t)

\* the inputs of a scalar operation that local validation must refuse
BadName(cache_name) == cache_name.type # "str" \/ cache_name.val = <<>>
BadPayload(data) == data.type \notin { "str", "bytes" }
ResolvedTtl(ttl) == IF ttl = None THEN self._default_ttl ELSE ttl[1]

InvalidScalarInput(op, args) ==
    \/ BadName(args.cache_name)
    \/ BadPayload(args.key)
    \/ op \in { "set", "set_if_not_exists" }
          /\ (BadPayload(args.value) \/ ResolvedTtl(args.ttl) <= 0)

C4_CodeOf(e) ==
    IF e.kind # "RpcError" THEN "UNKNOWN_ERROR"
    ELSE CASE e.status = "NOT_FOUND" -> "NOT_FOUND_ERROR"
           [] e.status = "UNAUTHENTICATED" -> "AUTHENTICATION_ERROR"
           [] e.status = "DEADLINE_EXCEEDED" -> "TIMEOUT_ERROR"
           [] OTHER -> StatusToCode(e.status)

C5_ConvertIdempotentPassThrough ==
    \A t \in Tasks :
        (call[t].pc = "done" /\ call[t].exc # None /\ call[t].stub # "cancelled")
            => LET e == call[t].exc[1]
               IN /\ ReturnedError(t)
                  /\ convert_error(convert_error(e)) = convert_error(e)
                  /\ call[t].result.returned[1]._error = Some(convert_error(e))
                  /\ e.kind = "SdkException"
                        => /\ call[t].result.returned[1]._error = Some(e)
                           /\ ErrorCodeOf(t) = e.error_code

\* set_if_not_exists answered with neither stored nor not_stored: the
\* UnknownException raised in the handler is the error returned
C5_Witness ==
    \E t \in Tasks :
        /\ call[t].pc = "done"
        /\ call[t].op = "set_if_not_exists"
        /\ call[t].stub = "returned"
        /\ call[t].exc # None
        /\ call[t].exc[1].cls = "UnknownException"
        /\ call[t].result.returned[1]._error = call[t].exc

DiscriminatorOps ==
    { "get", "set_if_not_exists", "dictionary_get_fields", "dictionary_fetch",
      "list_fetch", "list_length", "list_pop_back", "list_pop_front", "set_fetch" }

\* the top-level discriminator of a response, by the operation that reads it
Discriminator(op, response) ==
    CASE op = "get" -> Some(response.result)
      [] op = "set_if_not_exists" -> response.result
      [] op \in { "dictionary_get_fields", "dictionary_fetch" } -> response.dictionary
      [] op \in { "list_fetch", "list_length", "list_pop_back", "list_pop_front" } ->
            response.list
      [] op = "set_fetch" -> response.set

ExpectedDiscriminators(op) ==
    CASE op = "get" -> { Some("Hit"), Some("Miss") }
      [] op = "set_if_not_exists" -> { Some("stored"), Some("not_stored") }
      [] OTHER -> { Some("found"), Some("missing") }

\* C6: for the operations that read a response discriminator, a response
\* whose discriminator is none of the expected values yields the Error
\* variant with the unknown kind; never a positive variant, never a raise.
C6_UnknownDiscriminatorIsUnknownError ==
    \A t \in Tasks :
        (call[t].pc = "done" /\ call[t].stub = "returned"
           /\ call[t].op \in DiscriminatorOps
           /\ Discriminator(call[t].op, call[t].response[1])
                 \notin ExpectedDiscriminators(call[t].op))
            => /\ ReturnedError(t)
               /\ ErrorCodeOf(t) = "UNKNOWN_ERROR"

\* get answered with a result that is neither Hit nor Miss
C6_Witness ==
    \E t \in Tasks :
        /\ call[t].pc = "done"
        /\ call[t].op = "get"
        /\ call[t].stub = "returned"
        /\ call[t].response[1].result = "Invalid"
        /\ ReturnedError(t)
        /\ ErrorCodeOf(t) = "UNKNOWN_ERROR"

\* the closed family of variants of each operation
Variants(family) ==
    CASE family = "CacheSetIfNotExists" -> { "Stored", "NotStored", "Error" }
      [] family \in { "CacheGet", "CacheDictionaryGetFields", "CacheDictionaryFetch",
                      "CacheListFetch", "CacheListLength", "CacheListPopBack",
                      "CacheListPopFront", "CacheSetFetch" } ->
            { "Hit", "Miss", "Error" }
      [] OTHER -> { "Success", "Error" }

\* the positive variant that matches a recognised discriminator
C7_VariantOf(disc) ==
    CASE disc = Some("Hit") -> "Hit"
      [] disc = Some("Miss") -> "Miss"
      [] disc = Some("stored") -> "Stored"
      [] disc = Some("not_stored") -> "NotStored"
      [] disc = Some("found") -> "Hit"
      [] disc = Some("missing") -> "Miss"

\* the payload of the Hit of a fetch, length or pop operation
C7_FoundPayload(op, response) ==
    CASE op = "get" -> response.cache_body
      [] op = "list_fetch" -> response.found.values
      [] op = "list_length" -> response.found.length
      [] op = "list_pop_back" -> response.found.back
      [] op = "list_pop_front" -> response.found.front
      [] op = "set_fetch" ->
            { response.found.elements[i] : i \in 1..Len(response.found.elements) }

\* C7: after a transport call that returned normally, the operation returns
\* one variant of its closed family, the one matching the discriminator, with
\* the payload of the response; a positive variant is never returned when the
\* transport raised.
C7_VariantMatchesDiscriminator ==
    \A t \in Tasks :
        LET c == call[t]
            out == c.result.returned[1]
        IN /\ (c.pc = "done" /\ c.stub = "returned")
                => /\ c.result.raised = None /\ c.result.returned # None
                   /\ out.family = c.family
                   /\ out.variant \in Variants(c.family)
                   /\ (out.variant = "Error") = (out._error # None)
                   /\ c.op \notin DiscriminatorOps => out.variant = "Success"
                   /\ (c.op \in DiscriminatorOps
                         /\ Discriminator(c.op, c.response[1])
                               \in ExpectedDiscriminators(c.op))
                        => /\ out.variant = C7_VariantOf(Discriminator(c.op, c.response[1]))
                           /\ (out.variant = "Hit"
                                 /\ c.op \notin { "dictionary_get_fields",
                                                  "dictionary_fetch" })
                                => out.payload = Some(C7_FoundPayload(c.op, c.response[1]))
                           /\ (out.variant = "Hit" /\ c.op = "dictionary_fetch")
                                => LET items == c.response[1].items
                                       fields == { items[i].field : i \in 1..Len(items) }
                                   IN /\ \A p \in out.payload[1] :
                                            \E i \in 1..Len(items) :
                                                p = <<items[i].field, items[i].value>>
                                      /\ \A f \in fields :
                                            Cardinality({ p \in out.payload[1] : p[1] = f }) = 1
                           /\ out.variant \in { "Miss", "Stored", "NotStored" }
                                => out.payload = None
           /\ (c.pc = "done" /\ c.stub = "raised") => out.variant = "Error"

\* get answered Hit with a body that is not valid UTF-8
C7_Witness ==
    \E t \in Tasks :
        /\ call[t].pc = "done"
        /\ call[t].op = "get"
        /\ call[t].stub = "returned"
        /\ call[t].response[1].result = "Hit"
        /\ call[t].response[1].cache_body = <<255>>
        /\ call[t].result.returned[1].variant = "Hit"
        /\ call[t].result.returned[1].payload = Some(<<255>>)

TtlCollectionOps ==
    { "dictionary_increment", "dictionary_set_fields", "list_concatenate_back",
      "list_concatenate_front", "list_push_back", "list_push_front",
      "set_add_elements" }

\* C8 as stated: a collection operation that accepts a TTL resolves it to the
\* explicit duration of its CollectionTtl, else the client's default, and a
\* resolved TTL that is not positive yields Error with INVALID_ARGUMENT_ERROR
\* and no transport call.
C8_CollectionTtlValidated ==
    \A t \in Tasks :
        (call[t].pc # "idle" /\ call[t].op \in TtlCollectionOps)
            => /\ (call[t].rpc # None)
                     => call[t].rpc[1].request.ttl_milliseconds
                           = total_milliseconds(ResolvedTtl(call[t].args.ttl.ttl))
               /\ ResolvedTtl(call[t].args.ttl.ttl) <= 0
                     => /\ call[t].pc = "done"
                        /\ ReturnedError(t)
                        /\ ErrorCodeOf(t) = "INVALID_ARGUMENT_ERROR"
                        /\ call[t].stub_calls = 0

\* C9 as stated: every dispatch, of _ScsDataClient and of the blocking Cache
\* (set, get, and the get of _connect), carries an explicit finite deadline.
C9_EveryDispatchHasDeadline ==
    /\ \A t \in Tasks :
          call[t].rpc # None
              => call[t].rpc[1].timeout # None /\ call[t].rpc[1].timeout[1] \in Nat
    /\ cache.rpc # None
          => cache.rpc[1].timeout # None /\ cache.rpc[1].timeout[1] \in Nat

\* C10: a pending call never waits past the configured deadline, a deadline
\* that fires completes the call with Error TIMEOUT_ERROR, and every pending
\* call eventually returns.
C10_CallReturnsByDeadline ==
    /\ [](\A t \in Tasks :
            /\ call[t].pc = "awaiting"
                  => /\ call[t].rpc[1].timeout # None
                     /\ call[t].waited <= call[t].rpc[1].timeout[1]
                     /\ call[t].waited * 1000000 <= self.default_deadline
            /\ (call[t].pc = "done" /\ call[t].stub = "raised"
                  /\ call[t].exc = Some(RpcError("DEADLINE_EXCEEDED")))
                  => ReturnedError(t) /\ ErrorCodeOf(t) = "TIMEOUT_ERROR")
    /\ \A t \in Tasks : (call[t].pc = "awaiting") ~> (call[t].pc = "done")

\* a call that waited a whole second for its transport and ended in
\* TIMEOUT_ERROR
C10_Witness ==
    \E t \in Tasks :
        /\ call[t].pc = "done"
        /\ call[t].waited >= 1
        /\ call[t].waited = call[t].rpc[1].timeout[1]
        /\ call[t].exc = Some(RpcError("DEADLINE_EXCEEDED"))
        /\ ErrorCodeOf(t) = "TIMEOUT_ERROR"

\* C11 as stated: a call whose task is cancelled while its transport call is
\* in flight is abandoned and returns the Error variant of its operation with
\* the cancelled kind.
C11_CancelledCallReturnsCancelledError ==
    \A t \in DOMAIN call :
        (call[t].pc = "done" /\ call[t].stub = "cancelled")
            => /\ ReturnedError(t)
               /\ ErrorCodeOf(t) = "CANCELLED_ERROR"

\* C12 as stated: when construction fails after the channel was acquired, the
\* channel is released before the exception propagates; no channel is open
\* without a constructed client.
C12_FailedConstructionReleasesChannel ==
    client.state = "failed"
        => /\ ~channels._grpc_manager.open
           /\ ~channels._secure_channel.open

\* C13: a client acquires its channel exactly once and no operation opens a
\* further one; leaving a `with Cache(...)` block closes the secure channel
\* whether the body ended normally or with an exception, and that exception
\* still propagates; _ScsDataClient.close() closes the gRPC manager.
C13_ChannelAcquiredOnceReleasedOnShutdown ==
    /\ channels._grpc_manager.opened <= 1
    /\ channels._secure_channel.opened <= 1
    /\ client.state \in { "constructed", "entered" }
          => IF client.cls = "Cache"
             THEN channels._secure_channel = [opened |-> 1, open |-> TRUE]
             ELSE channels._grpc_manager = [opened |-> 1, open |-> TRUE]
    /\ client.state = "exited"
          => /\ channels._secure_channel = [opened |-> 1, open |-> FALSE]
             /\ client.exc = client.raised
    /\ client.state = "closed"
          => channels._grpc_manager = [opened |-> 1, open |-> FALSE]

\* a `with` block left by the classified error a Cache.get raised: the
\* channel is closed and the error propagates
C13_Witness ==
    /\ client.cls = "Cache"
    /\ client.state = "exited"
    /\ client.raised # None
    /\ client.raised[1].kind = "SdkException"
    /\ client.exc = client.raised
    /\ ~channels._secure_channel.open

\* what the call c dispatched and returned, had it run alone: a function of
\* its own arguments and of its own transport answer
C14_RequestAlone(c) ==
    CASE c.op = "set" ->
            set_request(self, c.args.cache_name, c.args.key, c.args.value, c.args.ttl)
      [] c.op = "get" -> get_request(c.args.cache_name, c.args.key)
      [] c.op = "list_push_back" ->
            list_push_request(self, c.args.cache_name, c.args.list_name, c.args.value,
                              c.args.ttl, c.args.truncate_front_to_size)

C14_ResultAlone(c) ==
    LET built == C14_RequestAlone(c)
        caught(e) == Returns(Error(c.family, convert_error(e)))
    IN IF built.raised # None THEN caught(built.raised[1])
       ELSE CASE c.stub = "raised" -> caught(c.exc[1])
              [] c.stub = "cancelled" ->
                    IF c.exc[1].kind = "BaseException" THEN Raises(c.exc[1])
                    ELSE caught(c.exc[1])
              [] c.stub = "returned" ->
                    LET r == OnResponse(c.op, built.val[1], c.response[1])
                    IN IF r.raised # None THEN caught(r.raised[1])
                       ELSE Returns(r.val[1])

\* C14: in any interleaving of the calls of two tasks on one client, each
\* call dispatches the request built from its own arguments, under its own
\* cache name, and returns the outcome it would return alone for the same
\* arguments and the same transport answer.
C14_ConcurrentCallsDoNotInterfere ==
    \A t \in DOMAIN call :
        LET c == call[t]
            built == C14_RequestAlone(c)
        IN /\ c.pc \in { "awaiting", "done" } /\ built.raised = None
                => /\ c.rpc # None
                   /\ c.rpc[1].request = built.val[1]
                   /\ c.rpc[1].metadata = make_metadata(c.args.cache_name)
                   /\ c.rpc[1].timeout = Some(self._default_deadline_seconds)
           /\ c.pc \in { "awaiting", "done" } /\ built.raised # None
                => c.rpc = None
           /\ c.pc = "done" => c.result = C14_ResultAlone(c)

\* a get that began while a set on another cache was in flight, and was
\* answered Hit while that set was still in flight
C14_Witness ==
    \E t, u \in DOMAIN call :
        /\ t # u
        /\ call[t].pc = "done" /\ call[t].op = "get" /\ call[t].overlaps
        /\ call[t].stub = "returned"
        /\ call[t].result.returned[1].variant = "Hit"
        /\ call[u].pc = "awaiting" /\ call[u].op = "set"
        /\ call[u].args.cache_name # call[t].args.cache_name

\* C15: no operation changes the client's configuration: once a client is
\* constructed, no step changes the default TTL, the deadline, the endpoint
\* or the manager reference of _ScsDataClient, nor _default_ttlSeconds of Cache.
C15_OperationsLeaveConfigurationUnchanged ==
    [][client.state \in { "constructed", "entered" }
          => /\ self' = self
             /\ cache'._default_ttlSeconds = cache._default_ttlSeconds]_vars

\* a set with an explicit TTL other than the default has been dispatched and
\* the client still holds the configuration it was constructed with
C15_Witness ==
    \E t \in DOMAIN call :
        /\ call[t].pc = "done"
        /\ call[t].op = "set"
        /\ call[t].stub = "returned"
        /\ call[t].args.ttl = Some(2000000)
        /\ self = _ScsDataClient(client.args.default_ttl, client.args.default_deadline)
        /\ self._default_ttl # 2000000

\* C16: constructing a client with an invalid default TTL (negative for
\* _ScsDataClient; not an int, or <= 0, for Cache) raises the invalid-argument
\* exception to the caller and leaves no client object.
C16_InvalidDefaultTtlRaises ==
    /\ (client.cls = "_ScsDataClient" /\ client.args.default_ttl < 0)
          => /\ client.state = "failed"
             /\ client.raised # None
             /\ client.raised[1].cls = "InvalidArgumentException"
             /\ client.raised[1].error_code = "INVALID_ARGUMENT_ERROR"
             /\ self = None
             /\ \A t \in DOMAIN call : call[t] = Idle
    /\ (client.cls = "Cache"
           /\ (client.args.default_ttlSeconds.type # "int"
                  \/ client.args.default_ttlSeconds.val[1] <= 0))
          => /\ client.state = "failed"
             /\ client.raised # None
             /\ client.raised[1].cls = "InvalidInputError"
             /\ client.raised[1].error_code = "INVALID_ARGUMENT_ERROR"
             /\ cache = NoCache

\* SimpleCacheClientAsync constructed with a default TTL of minus one second
C16_Witness ==
    /\ client.cls = "_ScsDataClient"
    /\ client.state = "failed"
    /\ client.args.default_ttl = -1000000
    /\ client.raised # None

\* the bytes a str or bytes value stands for
BytesOf(v) == IF v.type = "str" THEN Utf8Encode(v.val) ELSE v.val

\* the TTL an item was set with: the explicit one of its set, else the
\* client's default
TtlOf(item) ==
    IF item.source.ttl = None THEN self._default_ttl ELSE item.source.ttl[1]

\* microseconds since the item was stored
Elapsed(item) == (service.now - item.stored_at) * 1000000

\* C17: round trip: while the item set by set(cache, k, v) is neither
\* expired, deleted nor replaced, get(cache, k) returns Hit whose value_bytes
\* is v as bytes (its UTF-8 encoding when v is a str) and whose value_string
\* is v when v is a str.
C17_RoundTrip ==
    \A t \in DOMAIN call :
        LET c == call[t]
            out == c.result.returned[1]
        IN (c.pc = "done" /\ c.op = "get" /\ c.stub = "returned")
              => \A i \in service.items :
                    (/\ i.source.cache_name = c.args.cache_name
                     /\ i.source.key = c.args.key
                     /\ Elapsed(i) < TtlOf(i))
                    => /\ c.result.returned # None
                       /\ out.variant = "Hit"
                       /\ out.payload = Some(BytesOf(i.source.value))
                       /\ i.source.value.type = "str"
                             => value_string(out.payload[1]) = Some(i.source.value.val)

\* set("c", "k\u00e9", "v\u00e9") followed by get("c", "k\u00e9"): Hit with
\* the two-byte encoding of the value, decoded back to the value
C17_Witness ==
    \E t \in DOMAIN call :
        /\ call[t].pc = "done" /\ call[t].op = "get" /\ call[t].stub = "returned"
        /\ call[t].args.key = Str(<<107, 233>>)
        /\ \E i \in service.items :
              /\ i.source.key = Str(<<107, 233>>)
              /\ i.source.value = Str(<<118, 233>>)
        /\ call[t].result.returned[1].variant = "Hit"
        /\ call[t].result.returned[1].payload = Some(<<118, 195, 169>>)
        /\ value_string(call[t].result.returned[1].payload[1]) = Some(<<118, 233>>)

\* C18: get of a key that was never set in an existing cache, or that is no
\* longer present (deleted, or expired), returns Miss, never Error.
C18_AbsentKeyIsMiss ==
    \A t \in DOMAIN call :
        LET c == call[t]
            held == ItemsAt(service, c.args.cache_name.val, BytesOf(c.args.key))
        IN (/\ c.pc = "done" /\ c.op = "get" /\ c.rpc # None
            /\ c.args.cache_name.val \in service.caches
            /\ \A i \in held : Elapsed(i) > i.ttl_milliseconds * 1000)
              => /\ c.result.raised = None
                 /\ c.result.returned # None
                 /\ c.result.returned[1].variant = "Miss"

\* get of a key under which the existing cache holds nothing
C18_Witness ==
    \E t \in DOMAIN call :
        /\ call[t].pc = "done" /\ call[t].op = "get"
        /\ call[t].args.cache_name.val \in service.caches
        /\ ItemsAt(service, call[t].args.cache_name.val, BytesOf(call[t].args.key)) = {}
        /\ service.items # {}
        /\ call[t].result.returned[1].variant = "Miss"

\* C19: TTL expiry: get returns Hit while less than the TTL of the item has
\* elapsed since its set and Miss once more has elapsed; the TTL is the
\* explicit one of the set, else the client's default, whatever the TTLs of
\* the other keys.
C19_TtlExpiry ==
    \A t \in DOMAIN call :
        LET c == call[t]
        IN (c.pc = "done" /\ c.op = "get" /\ c.stub = "returned")
              => \A i \in ItemsAt(service, c.args.cache_name.val, BytesOf(c.args.key)) :
                    /\ Elapsed(i) < TtlOf(i)
                          => c.result.returned[1].variant = "Hit"
                    /\ Elapsed(i) > TtlOf(i)
                          => c.result.returned[1].variant = "Miss"

\* a key set with a TTL of two seconds is a miss after three, while another
\* key, set without a TTL, is still within the client's default
C19_Witness ==
    \E t \in DOMAIN call :
        /\ call[t].pc = "done" /\ call[t].op = "get" /\ call[t].stub = "returned"
        /\ call[t].result.returned[1].variant = "Miss"
        /\ \E i \in ItemsAt(service, call[t].args.cache_name.val,
                              BytesOf(call[t].args.key)) :
              i.source.ttl = Some(2000000) /\ Elapsed(i) > 2000000
        /\ \E j \in service.items :
              j.source.ttl = None /\ Elapsed(j) < self._default_ttl

\* the create operation of the resource a delete operation deletes
C20_CreateOf(op) == IF op = "delete_cache" THEN "create_cache" ELSE "create_index"

\* C20: deleting a cache or a vector index that does not exist returns Error
\* with NOT_FOUND_ERROR; deleting one that exists returns Success; after a
\* create, the first delete of that name returns Success and a second one
\* right after it returns Error with NOT_FOUND_ERROR.
C20_DeleteMissingIsNotFound ==
    \A t \in DOMAIN call :
        LET c == call[t]
            notfound == ReturnedError(t) /\ ErrorCodeOf(t) = "NOT_FOUND_ERROR"
            success == /\ c.result.returned # None
                       /\ c.result.returned[1].variant = "Success"
        IN (c.pc = "done" /\ c.op \in { "delete_cache", "delete_index" }
              /\ c.served # None)
              => /\ ~c.served[1].existed => notfound
                 /\ c.served[1].existed => success
                 /\ c.served[1].previous
                       = Some([op |-> c.op, name |-> c.args.name.val, succeeded |-> TRUE])
                       => notfound
                 /\ c.served[1].previous
                       = Some([op |-> C20_CreateOf(c.op), name |-> c.args.name.val,
                               succeeded |-> TRUE])
                       => success

\* the second of two deletes in a row of a cache that had been created
C20_Witness ==
    \E t \in DOMAIN call :
        /\ call[t].pc = "done" /\ call[t].op = "delete_cache"
        /\ call[t].served # None
        /\ call[t].served[1].previous
              = Some([op |-> "delete_cache", name |-> call[t].args.name.val,
                      succeeded |-> TRUE])
        /\ ReturnedError(t)
        /\ ErrorCodeOf(t) = "NOT_FOUND_ERROR"

\* the delete operation of the resource a create operation creates
C21_DeleteOf(op) == IF op = "create_cache" THEN "delete_cache" ELSE "delete_index"

\* the control operation of task t returned the given variant
C21_Answered(t, variant) ==
    /\ call[t].result.raised = None
    /\ call[t].result.returned # None
    /\ call[t].result.returned[1].variant = variant

C22_SetHere(cache_name, key) ==
    { i \in service.items : /\ i.source.cache_name = cache_name
                            /\ BytesOf(i.source.key) = BytesOf(key) }

\* C22: each operation is routed to the cache its call names: a get is a Hit
\* with the value last set under that key by a call naming the same cache,
\* and a Miss when no call naming that cache has set the key, whatever
\* another cache holds under the same key.
C22_RoutedToNamedCache ==
    \A t \in DOMAIN call :
        LET c == call[t]
            here == C22_SetHere(c.args.cache_name, c.args.key)
        IN (c.pc = "done" /\ c.op = "get" /\ c.stub = "returned")
              => /\ c.result.returned # None
                 /\ here = {} => c.result.returned[1].variant = "Miss"
                 /\ \A i \in here :
                       /\ c.result.returned[1].variant = "Hit"
                       /\ c.result.returned[1].payload = Some(BytesOf(i.source.value))

\* the key is set in cache "a" only, and get of it in cache "b" is a Miss
C22_Witness ==
    \E t \in DOMAIN call :
        /\ call[t].pc = "done" /\ call[t].op = "get" /\ call[t].stub = "returned"
        /\ call[t].args.cache_name = Str(<<98>>)
        /\ C22_SetHere(Str(<<98>>), call[t].args.key) = {}
        /\ C22_SetHere(Str(<<97>>), call[t].args.key) # {}
        /\ call[t].result.returned[1].variant = "Miss"

\* C23: an Error variant built from the classified error e exposes
\* inner_exception = e itself (with the failure it classifies as its cause),
\* error_code = e's code, and message = e's message wrapper, ": ", e's
\* message; for an invalid argument the wrapper is "Invalid argument passed to
\* Momento client".
C23_ErrorExposesClassifiedError ==
    \A t \in DOMAIN call :
        LET c == call[t]
            r == c.result.returned[1]
        IN (c.pc = "done" /\ ReturnedError(t))
              => /\ c.exc # None
                       => /\ inner_exception(r) = convert_error(c.exc[1])
                          /\ c.exc[1].kind = "SdkException"
                                => inner_exception(r) = c.exc[1]
                          /\ c.exc[1].kind # "SdkException"
                                => inner_exception(r).cause = c.exc
                 /\ inner_exception(r).kind = "SdkException"
                 /\ error_code(r) = inner_exception(r).error_code
                 /\ error_code(r) \in ErrorCodes
                 /\ message(r) = << message_wrapper(inner_exception(r)), ": ",
                                    inner_exception(r).message >>
                 /\ error_code(r) = "INVALID_ARGUMENT_ERROR"
                       => message(r)[1] = "Invalid argument passed to Momento client"

\* a call with a cache name that is not a str: the Error holds the validation
\* failure itself and the wrapped message of the tests
C23_Witness ==
    \E t \in DOMAIN call :
        /\ call[t].pc = "done" /\ ReturnedError(t)
        /\ call[t].exc = Some(InvalidArgumentException(
                                 "Cache name must be a non-empty string"))
        /\ inner_exception(call[t].result.returned[1]) = call[t].exc[1]
        /\ message(call[t].result.returned[1])
              = << "Invalid argument passed to Momento client", ": ",
                   "Cache name must be a non-empty string" >>

\* the distance of a stored item from the query of the call
C24_DistanceOf(c, i) == Distance(service.metric, i.vector, c.args.query_vector)

\* the stored items that pass the cutoff of the call
C24_Passing(c) ==
    { i \in service.vectors :
        \/ c.args.score_threshold = None
        \/ IF service.metric = "EUCLIDEAN_SIMILARITY"
           THEN C24_DistanceOf(c, i) < c.args.score_threshold[1]
           ELSE C24_DistanceOf(c, i) > c.args.score_threshold[1] }

\* hits is the subsequence of u whose distances pass the cutoff of the call
C24_PassingSubsequence(c, hits, u) ==
    hits = SelectSeq(u, LAMBDA h :
              Passes(service.metric, h.distance, c.args.score_threshold))

\* C24: a search answered by the service returns at most top_k hits, each a
\* stored item with its distance, no item twice, best match first by the
\* metric of the index; with a score_threshold every hit passes the cutoff of
\* the metric, no passing item is left out for a worse one, and the hits are
\* the passing subsequence of a result of the same search without threshold;
\* a top_k that is not a positive integer gives Search.Error with
\* INVALID_ARGUMENT_ERROR and no dispatch.
C24_SearchRankedFilteredCapped ==
    \A t \in DOMAIN call :
        LET c == call[t]
            hits == c.result.returned[1].payload[1]
            n == Len(hits)
            ids == { hits[k].id : k \in 1..n }
        IN /\ (c.pc = "done" /\ c.op = "search" /\ c.stub = "returned")
                => /\ c.result.returned # None
                   /\ c.result.returned[1].variant = "Success"
                   /\ n <= c.args.top_k.val[1]
                   /\ \A k \in 1..n :
                         \E i \in C24_Passing(c) :
                            /\ hits[k].id = i.id
                            /\ hits[k].distance = C24_DistanceOf(c, i)
                   /\ \A j, k \in 1..n : j < k =>
                         /\ hits[j].id # hits[k].id
                         /\ IF service.metric = "EUCLIDEAN_SIMILARITY"
                            THEN hits[j].distance <= hits[k].distance
                            ELSE hits[j].distance >= hits[k].distance
                   /\ \A i \in C24_Passing(c) : i.id \notin ids =>
                         /\ n = c.args.top_k.val[1]
                         /\ \A k \in 1..n :
                               IF service.metric = "EUCLIDEAN_SIMILARITY"
                               THEN hits[k].distance <= C24_DistanceOf(c, i)
                               ELSE hits[k].distance >= C24_DistanceOf(c, i)
                   /\ \E u \in SearchResults(service,
                               [query_vector |-> c.args.query_vector,
                                top_k |-> c.args.top_k.val[1],
                                score_threshold |-> None]) :
                         C24_PassingSubsequence(c, [k \in 1..n |->
                               [id |-> hits[k].id, distance |-> hits[k].distance]], u)
           /\ (c.pc = "done" /\ c.op = "search"
                  /\ c.args.index_name.type = "str" /\ c.args.index_name.val # <<>>
                  /\ (c.args.top_k.type # "int" \/ c.args.top_k.val[1] <= 0))
                => /\ ReturnedError(t)
                   /\ ErrorCodeOf(t) = "INVALID_ARGUMENT_ERROR"
                   /\ c.stub_calls = 0

\* three of the stored items, top_k = 3 and a threshold: the search returns
\* some of them and leaves out the ones below the cutoff
C24_Witness ==
    \E t \in DOMAIN call :
        /\ call[t].pc = "done" /\ call[t].op = "search" /\ call[t].stub = "returned"
        /\ call[t].args.top_k = PyInt(3)
        /\ call[t].args.score_threshold # None
        /\ Cardinality(service.vectors) >= 3
        /\ Len(call[t].result.returned[1].payload[1]) = 2
        /\ Cardinality(C24_Passing(call[t])) = 2

\* C25: a delete that reaches an existing cache returns Success whether or
\* not the key was present, and leaves the key absent; and once a delete of
\* the key has succeeded and no set of it has followed, get of it is a Miss.
C25_DeleteIdempotent ==
    \A t \in DOMAIN call :
        LET c == call[t]
            slot == << c.args.cache_name.val, BytesOf(c.args.key) >>
        IN /\ (c.pc = "done" /\ c.op = "delete" /\ c.stub = "returned")
                => /\ c.result.raised = None
                   /\ c.result.returned # None
                   /\ c.result.returned[1].variant = "Success"
                   /\ ItemsAt(service, slot[1], slot[2]) = {}
                   /\ slot \in service.deleted
           /\ (c.pc = "done" /\ c.op = "get" /\ c.stub = "returned"
                  /\ slot \in service.deleted)
                => /\ c.result.returned # None
                   /\ c.result.returned[1].variant = "Miss"

\* the delete of a key the cache did not hold returned Success
C25_Witness ==
    \E t \in DOMAIN call :
        /\ call[t].pc = "done" /\ call[t].op = "delete"
        /\ call[t].served = Some([present |-> FALSE])
        /\ call[t].result.returned # None
        /\ call[t].result.returned[1].variant = "Success"

\* the TTL of a Cache.set call, resolved against the client's default
C26_CacheResolvedTtl ==
    IF cache.args.ttl_seconds = PyNone THEN cache._default_ttlSeconds
    ELSE cache.args.ttl_seconds

\* C26: set and set_if_not_exists of _ScsDataClient, and Cache.set, send the
\* caller's ttl when one is given and the client's default when it is None;
\* the resolved value is the one validated (a resolved TTL that is not
\* positive is refused before the dispatch), and the request's
\* ttl_milliseconds is the resolved TTL in milliseconds (whole milliseconds,
\* a fraction of a millisecond dropped).
C26_TtlSentIsResolvedTtl ==
    /\ \A t \in DOMAIN call :
          LET c == call[t]
              resolved == ResolvedTtl(c.args.ttl)
              sent == c.rpc[1].request.ttl_milliseconds
          IN (c.pc # "idle" /\ c.op \in { "set", "set_if_not_exists" })
                => /\ resolved <= 0 => c.rpc = None
                   /\ c.rpc # None
                         => /\ sent * 1000 <= resolved
                            /\ resolved < (sent + 1) * 1000
    /\ (cache.pc # "idle" /\ cache.op = "set")
          => /\ (C26_CacheResolvedTtl.type # "int" \/ C26_CacheResolvedTtl.val[1] <= 0)
                   => cache.rpc = None
             /\ cache.rpc # None
                   => cache.rpc[1].request.ttl_milliseconds
                         = C26_CacheResolvedTtl.val[1] * 1000

\* C27: dictionary_get_fields answered "found" with a per-field result that is
\* neither Hit nor Miss returns Error with UNKNOWN_ERROR; the field is not
\* reported as a Hit.
C27_UnknownFieldResultIsError ==
    \A t \in DOMAIN call :
        LET c == call[t]
            fields == c.rpc[1].request.fields
            items == c.response[1].items
        IN (/\ c.pc = "done" /\ c.op = "dictionary_get_fields"
            /\ c.stub = "returned"
            /\ c.response[1].dictionary = Some("found")
            /\ \E i \in 1..Len(items) :
                  i <= Len(fields) /\ items[i].result \notin { "Hit", "Miss" })
              => /\ ReturnedError(t)
                 /\ ErrorCodeOf(t) = "UNKNOWN_ERROR"

\* every name is a non-empty str, every key, value, field and element a str
\* or bytes, and the TTL of set and set_if_not_exists resolves to a positive
\* duration: all that the handlers validate and convert before the dispatch
C28_LocalChecksPass(op, args) ==
    /\ ~BadName(args.cache_name)
    /\ \A f \in DOMAIN args \cap { "dictionary_name", "list_name", "set_name" } :
          ~BadName(args[f])
    /\ \A f \in DOMAIN args \cap { "key", "value", "field" } : ~BadPayload(args[f])
    /\ \A f \in DOMAIN args \cap { "fields", "values", "elements" } :
          \A i \in 1..Len(args[f]) : ~BadPayload(args[f][i])
    /\ \A f \in DOMAIN args \cap { "items" } :
          \A i \in 1..Len(args[f]) :
             ~BadPayload(args[f][i][1]) /\ ~BadPayload(args[f][i][2])
    /\ op \in { "set", "set_if_not_exists" } => ResolvedTtl(args.ttl) > 0

\* C28: an invocation of a _ScsDataClient operation invokes the transport
\* stub at most once, and exactly once when all local validation and byte
\* conversion succeeds; a variant other than Error is returned only after
\* that one call returned normally.
C28_StubInvokedOnce ==
    \A t \in DOMAIN call :
        LET c == call[t]
        IN c.pc # "idle"
              => /\ c.stub_calls <= 1
                 /\ C28_LocalChecksPass(c.op, c.args) => c.stub_calls = 1
                 /\ (c.pc = "done" /\ c.result.returned # None
                       /\ c.result.returned[1].variant # "Error")
                       => c.stub_calls = 1 /\ c.stub = "returned"

\* C29: the timeout of every _ScsDataClient dispatch is the configured
\* deadline truncated to whole seconds: it does not exceed the deadline, is
\* less than one second smaller, and is strictly positive whenever the
\* configured deadline is.
C29_TimeoutIsDeadlineInWholeSeconds ==
    \A t \in DOMAIN call :
        LET timeout == call[t].rpc[1].timeout[1]
            deadline == self.default_deadline
        IN (client.cls = "_ScsDataClient" /\ call[t].rpc # None)
              => /\ call[t].rpc[1].timeout # None
                 /\ timeout * 1000000 <= deadline
                 /\ deadline - timeout * 1000000 < 1000000
                 /\ deadline > 0 => timeout > 0

\* C30: dictionary_get_fields answered "found" returns a Hit holding one
\* per-field response for every requested field, in request order: as many
\* responses as requested fields, the i-th built from the i-th item of the
\* transport response, a per-field Hit carrying the i-th requested field as
\* bytes and that item's body.
C30_OneResponsePerRequestedField ==
    \A t \in DOMAIN call :
        LET c == call[t]
            items == c.response[1].items
            out == c.result.returned[1]
            get_responses == out.payload[1]
        IN (/\ c.pc = "done" /\ c.op = "dictionary_get_fields"
            /\ c.stub = "returned"
            /\ c.response[1].dictionary = Some("found"))
              => /\ c.result.returned # None
                 /\ out.variant = "Hit"
                 /\ Len(get_responses) = Len(c.args.fields)
                 /\ \A i \in 1..Len(get_responses) :
                       /\ i <= Len(items)
                       /\ items[i].result = "Miss" => get_responses[i].variant = "Miss"
                       /\ items[i].result = "Hit"
                             => /\ get_responses[i].variant = "Hit"
                                /\ get_responses[i].field_bytes = BytesOf(c.args.fields[i])
                                /\ get_responses[i].value_bytes = items[i].cache_body

\* C30 as the code has it: the Hit holds one per-field response for each
\* requested field that the transport response has an item for (zip stops at
\* the shorter of the two), in request order: as many responses as requested
\* fields whenever the response has at least that many items; the i-th is a
\* Miss when the i-th item's result is Miss and a Hit when it is Hit, and a
\* per-field Hit carries the i-th requested field as bytes and that item's
\* body.
C30_OneResponsePerAnsweredField ==
    \A t \in DOMAIN call :
        LET c == call[t]
            items == c.response[1].items
            out == c.result.returned[1]
            get_responses == out.payload[1]
        IN (/\ c.pc = "done" /\ c.op = "dictionary_get_fields"
            /\ c.stub = "returned"
            /\ c.response[1].dictionary = Some("found"))
              => /\ c.result.returned # None
                 /\ out.variant = "Hit"
                 /\ Len(get_responses) = Min({ Len(c.args.fields), Len(items) })
                 /\ Len(items) >= Len(c.args.fields)
                       => Len(get_responses) = Len(c.args.fields)
                 /\ \A i \in 1..Len(get_responses) :
                       /\ items[i].result = "Miss" => get_responses[i].variant = "Miss"
                       /\ items[i].result = "Hit" => get_responses[i].variant = "Hit"
                       /\ get_responses[i].variant = "Hit"
                             => /\ get_responses[i].field_bytes = BytesOf(c.args.fields[i])
                                /\ get_responses[i].value_bytes = items[i].cache_body

\* two fields requested, two items answered, a Miss and a Hit: the second
\* response is the Hit, with the second field and the item's body
C30_Witness ==
    \E t \in DOMAIN call :
        /\ call[t].pc = "done" /\ call[t].op = "dictionary_get_fields"
        /\ call[t].stub = "returned"
        /\ call[t].args.fields = << Str(<<102>>), Bytes(<<255>>) >>
        /\ call[t].response[1].dictionary = Some("found")
        /\ Len(call[t].response[1].items) = 2
        /\ call[t].response[1].items[1].result = "Miss"
        /\ call[t].response[1].items[2].result = "Hit"
        /\ call[t].result.returned[1].payload[1][2]
              = [variant |-> "Hit", value_bytes |-> <<118>>, field_bytes |-> <<255>>]

====
